---- MODULE Spec2Model ----
(***************************************************************************)
(* Control logic of the job_finder scraping engine:                        *)
(*   - the retrying fetch      (SiteScraper._get_with_retries)             *)
(*   - the orchestrator        (Aggregator.run)                            *)
(*   - the extraction cascade  (SiteScraper._scrape_jobs_with_fallback)    *)
(*   - company-list discovery  (CompanyListsScraper.scrape_all_sites)      *)
(* Each component has its own specification (SpecFetch, SpecAgg,           *)
(* SpecCascade, SpecSites, ...); the variables of the other components     *)
(* stay at their idle values.                                              *)
(***************************************************************************)
EXTENDS Integers, Sequences, FiniteSets, TLC

VARIABLES
    \* ---- retrying fetch ----
    impl,          \* which _get_with_retries runs: "site_scraper" | "langchain_agent"
    fetch_pc,      \* "idle" | "get" | "refetch" | "sleep" | "returned" | "raised"
    attempt,       \* loop variable of `for attempt in range(MAX_RETRIES)`
    get_log,       \* every requests.get issued by the call, in order
    delays,        \* every time.sleep taken by the call, in order
    fetch_ret,     \* value returned: NotYet | None | a response record
    \* ---- Aggregator.run ----
    company_list,  \* the submitted list of company URLs
    task_state,    \* per submitted coroutine: "pending" | "done" | "raised"
    task_jobs,     \* per submitted coroutine: the list it returned
    done_order,    \* positions of the coroutines in the order they finished
    run_pc,        \* "idle" | "gather" | "returned" | "raised"
    run_ret,       \* all_jobs as returned by run
    \* ---- SiteScraper._scrape_jobs_with_fallback ----
    use_llm,       \* self.use_llm
    llm_service,   \* self.llm_service is set (TRUE) or None (FALSE)
    job_page_urls, \* pages the loop walks: the deeper pages, else [url]
    page_idx,      \* position of the loop in job_page_urls
    casc_pc,       \* "idle" | "locate" | "naive" | "playwright" | "after_loop"
                   \*   | "final" | "returned" | "raised"
    all_jobs,      \* the accumulator of the cascade
    calls,         \* every strategy invocation of the call, in order
    casc_log,      \* the outcome lines the cascade logs, in order
    \* ---- CompanyListsScraper ----
    toggles,       \* latka / apmlist / growthlist arguments of scrape_all_sites
    cls_llm,       \* CompanyListsScraper.llm_service is set (TRUE) or None
    site_idx,      \* position of scrape_all_sites in its toggles list
    site_pc,       \* "idle" | "loop" | "naive" | "playwright" | "llm" | "returned"
    site_calls,    \* every strategy invocation, in order
    site_rets,     \* every return of _scrape_one_site, in order
    final_list,    \* the accumulator of scrape_all_sites
    \* ---- callers of the retrying fetch: locators and static strategy ----
    loc_impl,      \* whose method runs: "site_scraper" | "langchain_agent"
    loc_url,       \* the URL the method is called with
    loc_response,  \* what self._get_with_retries(url) returned to it
    loc_op,        \* "none" | "find_careers_pages" | "_find_deep_career_pages"
                   \*   | "naive_scrape"
    loc_links,     \* hrefs of soup.find_all("a", href=True), document order
    loc_elems,     \* trimmed text lengths of the elements soup.select matched
    loc_pc,        \* "idle" | "call" | "returned"
    loc_ret,       \* the list the method returned
    \* ---- SiteScraper.playwright_scrape ----
    rn_max_pages,  \* the max_pages argument
    rn_frames,     \* len(page.frames) of the rendered page
    rn_pc,         \* "idle" | "launch" | "new_page" | "goto" | "loop" | "content"
                   \*   | "query" | "click" | "close" | "returned" | "raised"
    rn_page_num,   \* page_num of the pagination loop (0 before it)
    rn_browser,    \* "none" | "open" | "closed"
    rn_jobs,       \* the jobs list
    rn_trace,      \* parse / query / click / raise events, in order
    \* ---- CompanyListsScraper._playwright_scrape ----
    sr_key,        \* the site whose configuration the call is made with
    sr_pc,         \* "idle" | "launch" | "setup" | "goto" | "popup" | "challenge"
                   \*   | "scroll" | "wait_selector" | "content" | "close"
                   \*   | "parse" | "returned"
    sr_popup_idx,  \* position in popup_selectors of the selector tried next
    sr_browser,    \* "none" | "open" | "closed"
    sr_names,      \* how many elements selector_name matches in the content
    sr_trace,      \* popup outcomes, cooldown, reload and raise events
    sr_items,      \* the items list
    \* ---- filter_jobs ----
    f_jobs,        \* the jobs argument
    f_config,      \* the filter_config argument (None or a dict)
    f_pc,          \* "idle" | "call" | "loop" | "returned" | "raised"
    f_idx,         \* position in jobs of the job the loop handles next
    f_filtered,    \* the filtered list
    f_checks,      \* per handled job: title_ok, experience_ok, location_ok,
                   \*   job_type_ok as the loop body computed them
    f_ret,         \* the returned list
    \* ---- CrewAILLMService.parse_jobs_with_llm ----
    lp_pc,         \* "idle" | "fetch" | "chat" | "returned" | "raised"
    lp_html_len,   \* len(html_text), the cleaned text fetch_clean_html returned
    lp_output,     \* what self.agent.chat(prompt) did (NotYet before the call)
    lp_chats,      \* how many times self.agent.chat was called
    lp_ret,        \* the returned list
    \* ---- the constructors that build the LLM service ----
    ct_impl,       \* "company_lists_scraper" | "langchain_agent"
    ct_use_llm,    \* LLM_AVAILABLE (company_lists_scraper.py) or
                   \*   config["use_llm"] (langchain_agent.py)
    ct_key,        \* an OpenAI API key is configured
    ct_pc,         \* "idle" | "construct" | "constructed" | "raised"
    ct_llm_service, \* self.llm_service is a service (TRUE) or None (FALSE)
    \* ---- job_main.main ----
    m_seed,        \* number of entries of company_websites
    m_pc,          \* "idle" | "load" | "agent" | "loop" | "filter" | "done"
                   \*   | "stopped" | "raised"
    m_idx,         \* position of the company the loop handles next
    m_invoked,     \* per handled company: jobs found, or -1 when invoke raised
    m_scraped,     \* scraped_jobs, as (company, job) pairs
    m_written,     \* what was dumped to OUTPUT_FILE (NotYet: nothing written)
    \* ---- google_sheets_service.GoogleSheetsService.ensure_columns_exist ----
    gs_rows,       \* the worksheet: its rows, each a list of cell values
    gs_required,   \* required_columns
    gs_pc,         \* "idle" | "read" | "decide" | "returned"
    gs_existing,   \* existing_values
    gs_start,      \* the worksheet when the current call began
    gs_raised,     \* a worksheet call of the current call raised
    gs_count       \* calls that have returned

fetchVars == <<impl, fetch_pc, attempt, get_log, delays, fetch_ret>>
aggVars == <<company_list, task_state, task_jobs, done_order, run_pc, run_ret>>

cascVars == <<use_llm, llm_service, job_page_urls, page_idx, casc_pc, all_jobs, calls,
              casc_log>>
siteVars == <<toggles, cls_llm, site_idx, site_pc, site_calls, site_rets, final_list>>

locVars == <<loc_impl, loc_url, loc_response, loc_op, loc_links, loc_elems, loc_pc, loc_ret>>

rnVars == <<rn_max_pages, rn_frames, rn_pc, rn_page_num, rn_browser, rn_jobs, rn_trace>>

srVars == <<sr_key, sr_pc, sr_popup_idx, sr_browser, sr_names, sr_trace, sr_items>>

fVars == <<f_jobs, f_config, f_pc, f_idx, f_filtered, f_checks, f_ret>>

lpVars == <<lp_pc, lp_html_len, lp_output, lp_chats, lp_ret>>

ctVars == <<ct_impl, ct_use_llm, ct_key, ct_pc, ct_llm_service>>

mVars == <<m_seed, m_pc, m_idx, m_invoked, m_scraped, m_written>>

gsVars == <<gs_rows, gs_required, gs_pc, gs_existing, gs_start, gs_raised, gs_count>>

vars ==
    <<fetchVars, aggVars, cascVars, siteVars, locVars, rnVars, srVars, fVars, lpVars, ctVars,
      mVars, gsVars>>

\* What the actions of one component leave alone.
notFetchVars == <<aggVars, cascVars, siteVars, locVars, rnVars, srVars, fVars, lpVars, ctVars,
    mVars, gsVars>>
notAggVars == <<fetchVars, cascVars, siteVars, locVars, rnVars, srVars, fVars, lpVars, ctVars,
    mVars, gsVars>>
notCascVars == <<fetchVars, aggVars, siteVars, locVars, rnVars, srVars, fVars, lpVars, ctVars,
    mVars, gsVars>>
notSiteVars == <<fetchVars, aggVars, cascVars, locVars, rnVars, srVars, fVars, lpVars, ctVars,
    mVars, gsVars>>
notLocVars == <<fetchVars, aggVars, cascVars, siteVars, rnVars, srVars, fVars, lpVars, ctVars,
    mVars, gsVars>>
notRnVars == <<fetchVars, aggVars, cascVars, siteVars, locVars, srVars, fVars, lpVars, ctVars,
    mVars, gsVars>>
notSrVars == <<fetchVars, aggVars, cascVars, siteVars, locVars, rnVars, fVars, lpVars, ctVars,
    mVars, gsVars>>
notFVars == <<fetchVars, aggVars, cascVars, siteVars, locVars, rnVars, srVars, lpVars, ctVars,
    mVars, gsVars>>
notLpVars == <<fetchVars, aggVars, cascVars, siteVars, locVars, rnVars, srVars, fVars, ctVars,
    mVars, gsVars>>
notMVars ==
    <<fetchVars, aggVars, cascVars, siteVars, locVars, rnVars, srVars, fVars, lpVars, ctVars,
      gsVars>>
notGsVars ==
    <<fetchVars, aggVars, cascVars, siteVars, locVars, rnVars, srVars, fVars, lpVars, ctVars,
      mVars>>
notCtVars == <<fetchVars, aggVars, cascVars, locVars, rnVars, srVars, fVars, lpVars,
    mVars, gsVars>>

\* ------------------------------------------------------------------------
\* Values
\* ------------------------------------------------------------------------
\* Python's None, the not-yet-returned marker and a raised
\* requests.exceptions.RequestException, as records so that they compare with
\* responses.
None == [kind |-> "None"]
NotYet == [kind |-> "NotYet"]
RequestException == [kind |-> "RequestException"]

\* src/src/scrapers/site_scraper.py:20 and src/src/scrapers/langchain_agent.py:18
MAX_RETRIES == 3

\* Final status codes a GET with allow_redirects=True can end with.
StatusCodes == {200, 404, 500}

\* A requests.Response as far as the code reads it: status_code and whether
\* response.history is non-empty.
Responses == [kind : {"response"}, status_code : StatusCodes, history : BOOLEAN]

\* What one requests.get call can do: return a response or raise.
GetOutcomes == Responses \cup {RequestException}

Impls == {"site_scraper", "langchain_agent"}

\* Largest company list submitted to the orchestrator, and most jobs one
\* strategy or one company task yields.
MaxCompanies == 3
MaxJobs == 2

\* Most deeper job pages the deeper-page locator hands to the cascade.
MaxDeepPages == 2

\* Most (company_name, company_url) pairs one strategy finds on one site.
MaxItems == 2

\* Most hyperlinks on a fetched page, and most elements the job selector
\* matches on it.
MaxLinks == 2
MaxElems == 2

\* Most jobs in the list given to filter_jobs.
MaxFilterJobs == 2

\* Most items in the JSON list the LLM answers with.
MaxLlmItems == 3

\* ------------------------------------------------------------------------
\* Retrying fetch: SiteScraper._get_with_retries
\* ------------------------------------------------------------------------

\* `for attempt in range(MAX_RETRIES)`: the loop body runs while this holds.
MoreAttemptsOffByOne(a) == a <= MAX_RETRIES
MoreAttempts(a) == a < MAX_RETRIES

\* `time.sleep(2 ** attempt)`
Backoff(a) == 2 ^ a

\* `if response.history:` (site_scraper.py only; langchain_agent.py returns
\* the 200 response as it is)
NeedsRefetchAlways(im, resp) == im = "site_scraper"
NeedsRefetch(im, resp) == im = "site_scraper" /\ resp.history

\* The re-fetch at site_scraper.py:248 sits inside the try block, so a
\* RequestException it raises reaches the except clause and the loop goes on
\* to the backoff.
AfterRefetchExceptionEscapes == "raised"
AfterRefetchException == "sleep"

FetchIdle ==
    /\ impl = "site_scraper"
    /\ fetch_pc = "idle"
    /\ attempt = 0
    /\ get_log = <<>>
    /\ delays = <<>>
    /\ fetch_ret = NotYet

FetchStart ==
    /\ impl \in Impls
    /\ fetch_pc = "get"
    /\ attempt = 0
    /\ get_log = <<>>
    /\ delays = <<>>
    /\ fetch_ret = NotYet

\* One pass through the try block up to the first requests.get and the
\* status test that follows it.
FetchGet(out) ==
    /\ fetch_pc = "get"
    /\ MoreAttempts(attempt)
    /\ get_log' = Append(get_log, [kind |-> "get", attempt |-> attempt, outcome |-> out])
    /\ IF out = RequestException
         THEN /\ fetch_pc' = "sleep"
              /\ fetch_ret' = fetch_ret
         ELSE IF out.status_code = 200
           THEN IF NeedsRefetch(impl, out)
                  THEN /\ fetch_pc' = "refetch"
                       /\ fetch_ret' = fetch_ret
                  ELSE /\ fetch_pc' = "returned"
                       /\ fetch_ret' = out
           ELSE /\ fetch_pc' = "sleep"
                /\ fetch_ret' = fetch_ret
    /\ UNCHANGED <<impl, attempt, delays, notFetchVars>>

\* `return requests.get(response.url, timeout=timeout)`: whatever the second
\* GET answers is returned without looking at it.
FetchRefetch(out) ==
    /\ fetch_pc = "refetch"
    /\ get_log' = Append(get_log, [kind |-> "refetch", attempt |-> attempt, outcome |-> out])
    /\ IF out = RequestException
         THEN /\ fetch_pc' = AfterRefetchException
              /\ fetch_ret' = fetch_ret
         ELSE /\ fetch_pc' = "returned"
              /\ fetch_ret' = out
    /\ UNCHANGED <<impl, attempt, delays, notFetchVars>>

\* `time.sleep(2 ** attempt)` is the last statement of the loop body: it runs
\* after every failed attempt, then the loop variable advances.
FetchSleep ==
    /\ fetch_pc = "sleep"
    /\ delays' = Append(delays, Backoff(attempt))
    /\ attempt' = attempt + 1
    /\ fetch_pc' = "get"
    /\ UNCHANGED <<impl, get_log, fetch_ret, notFetchVars>>

\* The loop is over: `return None`.
FetchExhausted ==
    /\ fetch_pc = "get"
    /\ ~MoreAttempts(attempt)
    /\ fetch_pc' = "returned"
    /\ fetch_ret' = None
    /\ UNCHANGED <<impl, attempt, get_log, delays, notFetchVars>>

FetchNext ==
    \/ \E out \in GetOutcomes : FetchGet(out)
    \/ \E out \in GetOutcomes : FetchRefetch(out)
    \/ FetchSleep
    \/ FetchExhausted


\* ------------------------------------------------------------------------
\* Orchestrator: Aggregator.run
\* ------------------------------------------------------------------------

\* The list a company task returns when it finds n jobs.
JobsOf(company_url, n) == [k \in 1..n |-> [company |-> company_url, title |-> k]]

\* `asyncio.gather(*(... for company_url in company_list))` hands back one
\* result per awaitable, in the order the awaitables were passed.
GatherResultsInCompletionOrder == [i \in 1..Len(done_order) |-> task_jobs[done_order[i]]]
GatherResults == [i \in 1..Len(company_list) |-> task_jobs[i]]

\* The loop over zip(job_results, company_list): a non-empty job_posts is
\* appended to all_jobs with extend, an empty one only logs a warning.
RECURSIVE ExtendAll(_, _)
ExtendAll(job_results, i) ==
    IF i > Len(job_results) THEN <<>>
    ELSE (IF job_results[i] # <<>> THEN job_results[i] ELSE <<>>)
             \o ExtendAll(job_results, i + 1)

\* What a finished scrape_company_jobs coroutine leaves behind: `jobs`, the
\* list of the SiteScraper that find_jobs built for this call, as the
\* result of its own awaitable.
SetResultShared(results, i, jobs) == [j \in DOMAIN results |-> results[j] \o jobs]

SetResult(results, i, jobs) == [results EXCEPT ![i] = jobs]

AggIdle ==
    /\ company_list = <<>>
    /\ task_state = <<>>
    /\ task_jobs = <<>>
    /\ done_order = <<>>
    /\ run_pc = "idle"
    /\ run_ret = <<>>

\* run is called with a list of 0..MaxCompanies company URLs and issues one
\* scrape_company_jobs coroutine per entry.
AggStart ==
    /\ \E n \in 0..MaxCompanies : company_list = [i \in 1..n |-> i]
    /\ task_state = [i \in 1..Len(company_list) |-> "pending"]
    /\ task_jobs = [i \in 1..Len(company_list) |-> <<>>]
    /\ done_order = <<>>
    /\ run_pc = "gather"
    /\ run_ret = <<>>

\* scrape_company_jobs for entry i returns the list find_jobs gave it.
TaskReturn(i, n) ==
    /\ run_pc = "gather"
    /\ i \in DOMAIN task_state
    /\ task_state[i] = "pending"
    /\ task_state' = [task_state EXCEPT ![i] = "done"]
    /\ task_jobs' = SetResult(task_jobs, i, JobsOf(company_list[i], n))
    /\ done_order' = Append(done_order, i)
    /\ UNCHANGED <<company_list, run_pc, run_ret, notAggVars>>

\* scrape_company_jobs has no try block: an exception of find_jobs leaves the
\* coroutine.
TaskRaise(i) ==
    /\ run_pc = "gather"
    /\ i \in DOMAIN task_state
    /\ task_state[i] = "pending"
    /\ task_state' = [task_state EXCEPT ![i] = "raised"]
    /\ done_order' = Append(done_order, i)
    /\ UNCHANGED <<company_list, task_jobs, run_pc, run_ret, notAggVars>>

\* gather is called without return_exceptions: the first exception of an
\* awaitable is raised by `await asyncio.gather(...)`, which is outside the
\* try block of the loop, so it leaves run.
RunGatherRaises ==
    /\ run_pc = "gather"
    /\ \E i \in DOMAIN task_state : task_state[i] = "raised"
    /\ run_pc' = "raised"
    /\ UNCHANGED <<company_list, task_state, task_jobs, done_order, run_ret, notAggVars>>

\* Every awaitable returned: the loop flattens the results and run returns
\* all_jobs.
RunFlatten ==
    /\ run_pc = "gather"
    /\ \A i \in DOMAIN task_state : task_state[i] = "done"
    /\ run_ret' = ExtendAll(GatherResults, 1)
    /\ run_pc' = "returned"
    /\ UNCHANGED <<company_list, task_state, task_jobs, done_order, notAggVars>>

AggNext ==
    \/ \E i \in 1..MaxCompanies : \E n \in 0..MaxJobs : TaskReturn(i, n)
    \/ \E i \in 1..MaxCompanies : TaskRaise(i)
    \/ RunGatherRaises
    \/ RunFlatten


\* ------------------------------------------------------------------------
\* Extraction cascade: SiteScraper._scrape_jobs_with_fallback(url, company_url)
\* Pages are numbered: 0 is `url` itself, 1..MaxDeepPages are deeper pages.
\* The strategies are collaborators reached through the names the call sites
\* use (self._naive_parse_job_page, self._playwright_scrape_jobs,
\* self.llm_service.parse_jobs_with_llm): each invocation yields a number of
\* jobs (or, where its code can, raises). use_llm and llm_service are the
\* attributes SiteScraper.__init__ of langchain_agent.py sets.
\* ------------------------------------------------------------------------
CompanyUrl == "company_url"

\* Records as _extract_job_data builds them.
ElemJobsNone(page, n) == <<>>

ElemJobs(page, n) == [k \in 1..n |-> [company |-> CompanyUrl, title |-> k, url |-> page]]

\* Records as parse_jobs_with_llm(company_url) returns them.
LlmJobs(n) == [k \in 1..n |-> [title |-> k, location |-> "Unknown", job_type |-> "Unknown",
                               experience |-> "Unknown", description |-> "", url |-> ""]]

\* The lists _find_deep_career_pages can return: no page, or distinct pages.
DeepPageLists == {[i \in 1..n |-> i] : n \in 0..MaxDeepPages}

\* `continue` after a non-empty naive result: on to the next job page.
AfterNaiveFoundFallsThrough == "playwright"
AfterNaiveFound == "next_page"

\* `if not all_jobs and self.use_llm and self.llm_service:`
LlmWantedUnguarded == all_jobs = <<>>
LlmWanted == all_jobs = <<>> /\ use_llm /\ llm_service

\* The last log line: info when all_jobs is non-empty, else the
\* "No jobs found ... after all methods" warning.
FinalLog(jobs) == IF jobs # <<>> THEN "SUCCESS" ELSE "NONE"

CascIdle ==
    /\ use_llm = FALSE
    /\ llm_service = FALSE
    /\ job_page_urls = <<>>
    /\ page_idx = 0
    /\ casc_pc = "idle"
    /\ all_jobs = <<>>
    /\ calls = <<>>
    /\ casc_log = <<>>

\* SiteScraper.__init__ of langchain_agent.py: llm_service is built iff use_llm.
CascStart ==
    /\ use_llm \in BOOLEAN
    /\ llm_service = use_llm
    /\ job_page_urls = <<>>
    /\ page_idx = 0
    /\ casc_pc = "locate"
    /\ all_jobs = <<>>
    /\ calls = <<>>
    /\ casc_log = <<>>

\* Where the loop goes when the iteration for page_idx is over.
LoopPc(idx) == IF idx < Len(job_page_urls) THEN "naive" ELSE "after_loop"

\* job_page_urls = self._find_deep_career_pages(url), falling back to [url].
CascLocate(deep) ==
    /\ casc_pc = "locate"
    /\ job_page_urls' = IF deep # <<>> THEN deep ELSE <<0>>
    /\ page_idx' = 1
    /\ casc_pc' = "naive"
    /\ all_jobs' = <<>>
    /\ UNCHANGED <<use_llm, llm_service, calls, casc_log, notCascVars>>

\* The naive parse of the current job page.
CascNaive(n) ==
    LET page == job_page_urls[page_idx] IN
    /\ casc_pc = "naive"
    /\ calls' = Append(calls, [strategy |-> "NAIVE", page |-> page, n |-> n])
    /\ IF n > 0
         THEN /\ casc_log' = Append(casc_log, "NAIVE")
              /\ all_jobs' = all_jobs \o ElemJobs(page, n)
              /\ IF AfterNaiveFound = "next_page"
                   THEN /\ casc_pc' = LoopPc(page_idx)
                        /\ page_idx' = page_idx + 1
                   ELSE /\ casc_pc' = "playwright"
                        /\ page_idx' = page_idx
         ELSE /\ casc_pc' = "playwright"
              /\ UNCHANGED <<casc_log, all_jobs, page_idx>>
    /\ UNCHANGED <<use_llm, llm_service, job_page_urls, notCascVars>>

\* The Playwright scrape of the current job page; the iteration ends after
\* it whether it found jobs or not.
CascPlaywright(n) ==
    LET page == job_page_urls[page_idx] IN
    /\ casc_pc = "playwright"
    /\ calls' = Append(calls, [strategy |-> "RENDERED", page |-> page, n |-> n])
    /\ IF n > 0
         THEN /\ casc_log' = Append(casc_log, "RENDERED")
              /\ all_jobs' = all_jobs \o ElemJobs(page, n)
         ELSE UNCHANGED <<casc_log, all_jobs>>
    /\ casc_pc' = LoopPc(page_idx)
    /\ page_idx' = page_idx + 1
    /\ UNCHANGED <<use_llm, llm_service, job_page_urls, notCascVars>>

\* playwright_scrape launches the browser before its try block: a failing
\* launch raises, and the cascade has no handler.
CascPlaywrightRaises ==
    /\ casc_pc = "playwright"
    /\ calls' = Append(calls, [strategy |-> "RENDERED", page |-> job_page_urls[page_idx],
                               n |-> -1])
    /\ casc_pc' = "raised"
    /\ UNCHANGED <<use_llm, llm_service, job_page_urls, page_idx, all_jobs, casc_log,
                   notCascVars>>

\* The LLM tier: entered after the loop when LlmWanted; a call on a missing
\* service (None) is an AttributeError.
CascLlm(n) ==
    /\ casc_pc = "after_loop"
    /\ LlmWanted
    /\ calls' = Append(calls, [strategy |-> "LLM", page |-> 0,
                               n |-> IF llm_service THEN n ELSE -1])
    /\ IF ~llm_service
         THEN /\ casc_pc' = "raised"
              /\ UNCHANGED <<casc_log, all_jobs>>
         ELSE /\ casc_pc' = "final"
              /\ IF n > 0
                   THEN /\ casc_log' = Append(casc_log, "LLM")
                        /\ all_jobs' = all_jobs \o LlmJobs(n)
                   ELSE /\ casc_log' = Append(casc_log, "LLM_EMPTY")
                        /\ all_jobs' = all_jobs
    /\ UNCHANGED <<use_llm, llm_service, job_page_urls, page_idx, notCascVars>>

\* parse_jobs_with_llm launches its browser outside any try block.
CascLlmRaises ==
    /\ casc_pc = "after_loop"
    /\ LlmWanted
    /\ calls' = Append(calls, [strategy |-> "LLM", page |-> 0, n |-> -1])
    /\ casc_pc' = "raised"
    /\ UNCHANGED <<use_llm, llm_service, job_page_urls, page_idx, all_jobs, casc_log,
                   notCascVars>>

CascSkipLlm ==
    /\ casc_pc = "after_loop"
    /\ ~LlmWanted
    /\ casc_pc' = "final"
    /\ UNCHANGED <<use_llm, llm_service, job_page_urls, page_idx, all_jobs, calls,
                   casc_log, notCascVars>>

\* Final log line and `return all_jobs`.
CascReturn ==
    /\ casc_pc = "final"
    /\ casc_log' = Append(casc_log, FinalLog(all_jobs))
    /\ casc_pc' = "returned"
    /\ UNCHANGED <<use_llm, llm_service, job_page_urls, page_idx, all_jobs, calls,
                   notCascVars>>

CascNext ==
    \/ \E deep \in DeepPageLists : CascLocate(deep)
    \/ \E n \in 0..MaxJobs : CascNaive(n)
    \/ \E n \in 0..MaxJobs : CascPlaywright(n)
    \/ CascPlaywrightRaises
    \/ \E n \in 0..MaxJobs : CascLlm(n)
    \/ CascLlmRaises
    \/ CascSkipLlm
    \/ CascReturn

\* ------------------------------------------------------------------------
\* Company-list discovery: CompanyListsScraper.scrape_all_sites and
\* _scrape_one_site
\* ------------------------------------------------------------------------

\* The toggles list of scrape_all_sites, in its fixed order.
SiteKeys == <<"latka", "apmlist", "growthlist">>

\* self.sites has an entry for each of the three keys.
ConfiguredSites == {"latka", "apmlist", "growthlist"}

\* The (c_name, c_url) pairs a strategy extracts when it matches n elements.
ItemsOf(key, strategy, n) == [k \in 1..n |-> <<<<strategy, k>>, <<key, k>>>>]

\* _llm_fallback calls the coroutine function parse_jobs_with_llm without
\* awaiting it and iterates over the coroutine object; the TypeError is caught
\* by its `except Exception`, and every other path (status not 200, GET
\* raising) also leaves results empty: it returns [].
LlmFallback(key) == <<>>

\* `if naive_data:` / `if pw_data:` / `if llm_data:`: a non-empty result is
\* returned at once.
SiteReturnsNever(data) == FALSE
SiteReturns(data) == data # <<>>

\* `if self.llm_service:` before the LLM tier.
SiteLlmConfigured == cls_llm

SitesIdle ==
    /\ toggles = [k \in {} |-> FALSE]
    /\ cls_llm = FALSE
    /\ site_idx = 0
    /\ site_pc = "idle"
    /\ site_calls = <<>>
    /\ site_rets = <<>>
    /\ final_list = <<>>

\* scrape_all_sites(latka, apmlist, growthlist) on a scraper whose LLM
\* service was or was not built by __init__.
SitesStart ==
    /\ toggles \in [ConfiguredSites -> BOOLEAN]
    /\ cls_llm \in BOOLEAN
    /\ site_idx = 1
    /\ site_pc = "loop"
    /\ site_calls = <<>>
    /\ site_rets = <<>>
    /\ final_list = <<>>

\* final_list.append((key, c_name, c_url)) for each pair of data.
AppendSiteInFront(list, key, data) ==
    [k \in 1..Len(data) |-> <<key, data[k][1], data[k][2]>>] \o list
AppendSite(list, key, data) == list \o [k \in 1..Len(data) |-> <<key, data[k][1], data[k][2]>>]

\* _scrape_one_site(key) returns data: scrape_all_sites appends it and moves
\* to the next toggle.
SiteReturn(key, data) ==
    /\ site_rets' = Append(site_rets, [key |-> key, data |-> data])
    /\ final_list' = AppendSite(final_list, key, data)
    /\ site_idx' = site_idx + 1
    /\ site_pc' = "loop"

\* `if do_scrape and key in self.sites:` holds: _scrape_one_site is entered.
SitesEnter ==
    /\ site_pc = "loop"
    /\ site_idx <= Len(SiteKeys)
    /\ toggles[SiteKeys[site_idx]] /\ SiteKeys[site_idx] \in ConfiguredSites
    /\ site_pc' = "naive"
    /\ UNCHANGED <<toggles, cls_llm, site_idx, site_calls, site_rets, final_list,
                   notSiteVars>>

\* The toggle is off: the site is skipped.
SitesSkip ==
    /\ site_pc = "loop"
    /\ site_idx <= Len(SiteKeys)
    /\ ~(toggles[SiteKeys[site_idx]] /\ SiteKeys[site_idx] \in ConfiguredSites)
    /\ site_idx' = site_idx + 1
    /\ UNCHANGED <<toggles, cls_llm, site_pc, site_calls, site_rets, final_list,
                   notSiteVars>>

\* `return final_list`
SitesReturn ==
    /\ site_pc = "loop"
    /\ site_idx > Len(SiteKeys)
    /\ site_pc' = "returned"
    /\ UNCHANGED <<toggles, cls_llm, site_idx, site_calls, site_rets, final_list,
                   notSiteVars>>

\* 1) naive. _naive_scrape catches every exception and returns its items.
SiteNaive(n) ==
    LET key == SiteKeys[site_idx]
        naive_data == ItemsOf(key, "NAIVE", n) IN
    /\ site_pc = "naive"
    /\ site_calls' = Append(site_calls, [key |-> key, strategy |-> "NAIVE",
                                         data |-> naive_data])
    /\ IF SiteReturns(naive_data)
         THEN SiteReturn(key, naive_data)
         ELSE /\ site_pc' = "playwright"
              /\ UNCHANGED <<site_rets, final_list, site_idx>>
    /\ UNCHANGED <<toggles, cls_llm, notSiteVars>>

\* 2) playwright stealth. _playwright_scrape catches every exception too.
\* When it found nothing the LLM tier follows if a service is configured,
\* else the site has failed and [] is returned.
SitePlaywright(n) ==
    LET key == SiteKeys[site_idx]
        pw_data == ItemsOf(key, "RENDERED", n) IN
    /\ site_pc = "playwright"
    /\ site_calls' = Append(site_calls, [key |-> key, strategy |-> "RENDERED",
                                         data |-> pw_data])
    /\ IF SiteReturns(pw_data)
         THEN SiteReturn(key, pw_data)
         ELSE IF SiteLlmConfigured
                THEN /\ site_pc' = "llm"
                     /\ UNCHANGED <<site_rets, final_list, site_idx>>
                ELSE SiteReturn(key, <<>>)
    /\ UNCHANGED <<toggles, cls_llm, notSiteVars>>

\* 3) LLM fallback, then the "All Methods Failed" return of [].
SiteLlm ==
    LET key == SiteKeys[site_idx]
        llm_data == LlmFallback(key) IN
    /\ site_pc = "llm"
    /\ site_calls' = Append(site_calls, [key |-> key, strategy |-> "LLM",
                                         data |-> llm_data])
    /\ IF SiteReturns(llm_data)
         THEN SiteReturn(key, llm_data)
         ELSE SiteReturn(key, <<>>)
    /\ UNCHANGED <<toggles, cls_llm, notSiteVars>>

SitesNext ==
    \/ SitesEnter
    \/ SitesSkip
    \/ SitesReturn
    \/ \E n \in 0..MaxItems : SiteNaive(n)
    \/ \E n \in 0..MaxItems : SitePlaywright(n)
    \/ SiteLlm

\* ------------------------------------------------------------------------
\* Callers of the retrying fetch: SiteScraper.find_careers_pages,
\* _find_deep_career_pages and naive_scrape
\*
\* A URL is a host and a path (a sequence of segments, "" after a trailing
\* slash). An href is absolute (starts with "http"), root-relative or
\* relative. Keywords are searched in the segments.
\* ------------------------------------------------------------------------
Url(host, path) == [host |-> host, path |-> path]
Href(kind, host, path) == [kind |-> kind, host |-> host, path |-> path]

\* str.lower() on the segments that occur.
Lower(tok) ==
    CASE tok = "Careers" -> "careers"
      [] tok = "Jobs" -> "jobs"
      [] OTHER -> tok

\* The keywords that occur in a segment as substrings, case-sensitively.
KeywordsIn(tok) ==
    CASE tok = "careers" -> {"careers"}
      [] tok = "jobs" -> {"jobs"}
      [] tok = "jobs.x.com" -> {"jobs"}
      [] tok = "join-us" -> {"join-us"}
      [] tok = "join-our-team" -> {"join-our-team"}
      [] tok = "positions" -> {"positions"}
      [] tok = "careers-home" -> {"careers", "careers-home"}
      [] OTHER -> {}

\* The segments of a URL or href string.
Segments(u) == {u.host} \cup {u.path[i] : i \in 1..Len(u.path)}

\* re.search(r"k1|k2|...", text, re.IGNORECASE)
ReSearch(keywords, u) ==
    \E tok \in Segments(u) : KeywordsIn(Lower(tok)) \cap keywords # {}

\* The patterns of find_careers_pages (one per copy) and of
\* _find_deep_career_pages.
CareersKeywords(im) ==
    IF im = "site_scraper" THEN {"careers", "jobs", "join-our-team", "join-us"}
    ELSE {"careers", "jobs", "join-us"}
DeepKeywords == {"jobs", "positions", "careers-home"}

\* href.startswith("http")
StartsWithHttp(href) == href.kind = "abs"

\* urllib.parse.urljoin(base_url, relative_path)
UrlJoin(base, href) ==
    CASE href.kind = "abs" -> Url(href.host, href.path)
      [] href.kind = "root" -> Url(base.host, href.path)
      [] OTHER -> Url(base.host,
                      (IF base.path = <<>> THEN <<>>
                       ELSE SubSeq(base.path, 1, Len(base.path) - 1)) \o href.path)

\* _build_absolute_url, and the same test inlined in find_careers_pages.
BuildAbsoluteUrl(base, href) ==
    IF StartsWithHttp(href) THEN Url(href.host, href.path) ELSE UrlJoin(base, href)

\* `if full_url not in careers_pages:` guards the append in site_scraper.py;
\* langchain_agent.py appends without the test.
MayAppend(im, acc, full_url) ==
    im = "langchain_agent" \/ \A k \in 1..Len(acc) : acc[k] # full_url

\* The loop of find_careers_pages over the links from position i on.
RECURSIVE CareersScan(_, _, _, _, _)
CareersScan(im, base, links, i, acc) ==
    IF i > Len(links) THEN acc
    ELSE LET full_url == BuildAbsoluteUrl(base, links[i]) IN
         CareersScan(im, base, links, i + 1,
             IF ReSearch(CareersKeywords(im), full_url) /\ MayAppend(im, acc, full_url)
               THEN Append(acc, full_url) ELSE acc)

\* The loop of _find_deep_career_pages: the pattern is searched in the href,
\* the URL is built afterwards.
RECURSIVE DeepScan(_, _, _, _)
DeepScan(base, links, i, acc) ==
    IF i > Len(links) THEN acc
    ELSE LET full_url == BuildAbsoluteUrl(base, links[i]) IN
         DeepScan(base, links, i + 1,
             IF ReSearch(DeepKeywords, links[i]) /\ MayAppend("site_scraper", acc, full_url)
               THEN Append(acc, full_url) ELSE acc)

\* `if not response:`: None is falsy, and so is a requests.Response whose
\* status is 400 or more (Response.__bool__ is Response.ok).
Falsy(resp) == resp = None \/ resp.status_code >= 400

\* `if not response: return [company_url]` of find_careers_pages.
NoResponseCareersEmpty(url) == <<>>
NoResponseCareers(url) == <<url>>

\* `return careers_pages if careers_pages else [company_url]`
OrHomepageMissing(pages, url) == pages
OrHomepage(pages, url) == IF pages # <<>> THEN pages ELSE <<url>>

\* site_scraper.py:236, `get_text(strip=True)[:50]`
TITLE_MAX == 50

\* Trimmed text lengths of matched elements: empty, short, at and over the cut.
TextLens == {0, 1, TITLE_MAX, TITLE_MAX + 1}

\* _extract_job_data: the title is the first TITLE_MAX characters of the
\* trimmed text; an empty title gives None.
ExtractJobData(n, company_url, source_url) ==
    LET title == [text |-> n, len |-> IF n < TITLE_MAX THEN n ELSE TITLE_MAX] IN
    IF title.len > 0
      THEN <<[company |-> company_url, title |-> title, url |-> source_url]>>
      ELSE <<>>

\* The record langchain_agent.py's naive_scrape builds: the whole trimmed
\* text, company and url both the page URL, no element skipped.
AgentJobData(n, url) ==
    <<[company |-> url, title |-> [text |-> n, len |-> n], url |-> url]>>

\* The company_url argument of naive_scrape: the company's homepage.
Homepage == Url("x.com", <<>>)

\* The loop of naive_scrape over the matched elements.
RECURSIVE NaiveJobs(_, _, _, _)
NaiveJobs(im, url, elems, i) ==
    IF i > Len(elems) THEN <<>>
    ELSE (IF im = "site_scraper" THEN ExtractJobData(elems[i], Homepage, url)
          ELSE AgentJobData(elems[i], url))
            \o NaiveJobs(im, url, elems, i + 1)

\* The pages the methods are called with, and the hrefs found on them.
BaseUrls == {Url("x.com", <<>>), Url("x.com", <<"jobs", "">>)}
Hrefs ==
    {Href("rel", "", <<"Careers">>), Href("root", "", <<"jobs">>),
     Href("rel", "", <<"join-our-team">>), Href("rel", "", <<"join-us">>),
     Href("rel", "", <<"about">>), Href("abs", "other.com", <<"about">>),
     Href("abs", "x.com", <<"Careers">>), Href("rel", "", <<"positions">>),
     Href("rel", "", <<"careers-home">>)}

SeqsUpTo(S, n) == UNION {[1..k -> S] : k \in 0..n}

\* What _get_with_retries can hand back: None, a 200 response, and in
\* site_scraper.py the unchecked answer of the redirect re-fetch.
FetchReturns(im) ==
    {None} \cup {r \in Responses : ~r.history /\ (im = "site_scraper" \/ r.status_code = 200)}

LocIdle ==
    /\ loc_impl = "site_scraper"
    /\ loc_url = Url("", <<>>)
    /\ loc_response = None
    /\ loc_op = "none"
    /\ loc_links = <<>>
    /\ loc_elems = <<>>
    /\ loc_pc = "idle"
    /\ loc_ret = <<>>

LocStart ==
    /\ loc_impl \in Impls
    /\ loc_url \in BaseUrls
    /\ loc_response \in FetchReturns(loc_impl)
    /\ loc_op = "none"
    /\ loc_links = <<>>
    /\ loc_elems = <<>>
    /\ loc_pc = "call"
    /\ loc_ret = <<>>

\* find_careers_pages(company_url) on a page with the given links.
FindCareersPages(links) ==
    /\ loc_pc = "call"
    /\ loc_op' = "find_careers_pages"
    /\ IF Falsy(loc_response)
         THEN /\ links = <<>>
              /\ loc_ret' = NoResponseCareers(loc_url)
         ELSE loc_ret' = OrHomepage(CareersScan(loc_impl, loc_url, links, 1, <<>>), loc_url)
    /\ loc_links' = links
    /\ loc_pc' = "returned"
    /\ UNCHANGED <<loc_impl, loc_url, loc_response, loc_elems, notLocVars>>

\* _find_deep_career_pages(career_page_url); only site_scraper.py has it.
FindDeepCareerPages(links) ==
    /\ loc_pc = "call"
    /\ loc_impl = "site_scraper"
    /\ loc_op' = "_find_deep_career_pages"
    /\ IF Falsy(loc_response)
         THEN /\ links = <<>>
              /\ loc_ret' = <<>>
         ELSE loc_ret' = DeepScan(loc_url, links, 1, <<>>)
    /\ loc_links' = links
    /\ loc_pc' = "returned"
    /\ UNCHANGED <<loc_impl, loc_url, loc_response, loc_elems, notLocVars>>

\* naive_scrape(url, company_url) on a page whose selector matches elems.
NaiveScrape(elems) ==
    /\ loc_pc = "call"
    /\ loc_op' = "naive_scrape"
    /\ IF Falsy(loc_response)
         THEN /\ elems = <<>>
              /\ loc_ret' = <<>>
         ELSE loc_ret' = NaiveJobs(loc_impl, loc_url, elems, 1)
    /\ loc_elems' = elems
    /\ loc_pc' = "returned"
    /\ UNCHANGED <<loc_impl, loc_url, loc_response, loc_links, notLocVars>>

LocNext ==
    \/ \E links \in SeqsUpTo(Hrefs, MaxLinks) : FindCareersPages(links)
    \/ \E links \in SeqsUpTo(Hrefs, MaxLinks) : FindDeepCareerPages(links)
    \/ \E elems \in SeqsUpTo(TextLens, MaxElems) : NaiveScrape(elems)

\* ------------------------------------------------------------------------
\* SiteScraper.playwright_scrape(url, company_url, max_pages=3)
\* ------------------------------------------------------------------------
\* The default of the max_pages parameter.
DEFAULT_MAX_PAGES == 3

\* The URL of the page the rendered strategy is called with.
RenderedUrl == "page_url"

\* Trimmed texts of the elements the selector matches on a rendered page:
\* empty or longer than the title cut.
RenderedTexts == {0, TITLE_MAX + 1}

\* `frame = page.frames[1]` when the page has more than one frame, else
\* `page.main_frame` (index 0).
FrameParsedLast(nframes) == nframes - 1

FrameParsed(nframes) == IF nframes > 1 THEN 1 ELSE 0

\* `for page_num in range(1, max_pages + 1)`: is there another iteration?
AnotherPageOffByOne(page_num, max_pages) == page_num < max_pages + 1
AnotherPage(page_num, max_pages) == page_num < max_pages

\* `if not job_elems: ... break`
AfterNoElemsKeepsPaging == "query"
AfterNoElems == "close"

\* `except Exception as e: logger.error(...)`, then the finally block.
AfterRaisesEscapes == "raised"
AfterRaises == "close"

\* `for elem in job_elems: job_data = self._extract_job_data(...)`
RECURSIVE RenderedJobs(_, _)
RenderedJobs(elems, i) ==
    IF i > Len(elems) THEN <<>>
    ELSE ExtractJobData(elems[i], CompanyUrl, RenderedUrl) \o RenderedJobs(elems, i + 1)

\* `if job_data: jobs.append(job_data)`, for the records of one page.
AppendAllUnseen(jobs, found) ==
    jobs \o SelectSeq(found, LAMBDA job : \A k \in 1..Len(jobs) : jobs[k] # job)

AppendAll(jobs, found) == jobs \o found

RnEvent(ev, elems, found) ==
    [ev |-> ev, page |-> rn_page_num, frames |-> rn_frames,
     frame |-> FrameParsed(rn_frames), elems |-> elems, found |-> found]

RnIdle ==
    /\ rn_max_pages = DEFAULT_MAX_PAGES
    /\ rn_frames = 1
    /\ rn_pc = "idle"
    /\ rn_page_num = 0
    /\ rn_browser = "none"
    /\ rn_jobs = <<>>
    /\ rn_trace = <<>>

RnStart ==
    /\ rn_max_pages \in 1..DEFAULT_MAX_PAGES
    /\ rn_frames \in 1..3
    /\ rn_pc = "launch"
    /\ rn_page_num = 0
    /\ rn_browser = "none"
    /\ rn_jobs = <<>>
    /\ rn_trace = <<>>

\* browser = await p.chromium.launch(headless=True)
RnLaunch ==
    /\ rn_pc = "launch"
    /\ rn_browser' = "open"
    /\ rn_pc' = "new_page"
    /\ UNCHANGED <<rn_max_pages, rn_frames, rn_page_num, rn_jobs, rn_trace, notRnVars>>

\* page = await browser.new_page()
RnNewPage ==
    /\ rn_pc = "new_page"
    /\ rn_pc' = "goto"
    /\ UNCHANGED <<rn_max_pages, rn_frames, rn_page_num, rn_browser, rn_jobs, rn_trace, notRnVars>>

\* launch or new_page raises: both stand before the try, the exception
\* leaves playwright_scrape and only the playwright context manager unwinds.
RnSetupRaises ==
    /\ rn_pc \in {"launch", "new_page"}
    /\ rn_pc' = "raised"
    /\ UNCHANGED <<rn_max_pages, rn_frames, rn_page_num, rn_browser, rn_jobs, rn_trace, notRnVars>>

\* await page.goto(url, timeout=30_000)
RnGoto ==
    /\ rn_pc = "goto"
    /\ rn_pc' = "loop"
    /\ UNCHANGED <<rn_max_pages, rn_frames, rn_page_num, rn_browser, rn_jobs, rn_trace, notRnVars>>

\* The loop head and wait_for_selector("body"): the next page_num, or the
\* range is exhausted.
RnLoop ==
    /\ rn_pc = "loop"
    /\ IF AnotherPage(rn_page_num, rn_max_pages)
         THEN /\ rn_page_num' = rn_page_num + 1
              /\ rn_pc' = "content"
         ELSE /\ rn_page_num' = rn_page_num
              /\ rn_pc' = "close"
    /\ UNCHANGED <<rn_max_pages, rn_frames, rn_browser, rn_jobs, rn_trace, notRnVars>>

\* frame.content(), soup.select(...) and the loop over job_elems.
RnParse(elems) ==
    /\ rn_pc = "content"
    /\ rn_trace' = Append(rn_trace, RnEvent("parse", elems, FALSE))
    /\ rn_jobs' = AppendAll(rn_jobs, RenderedJobs(elems, 1))
    /\ rn_pc' = IF elems = <<>> THEN AfterNoElems ELSE "query"
    /\ UNCHANGED <<rn_max_pages, rn_frames, rn_page_num, rn_browser, notRnVars>>

\* next_button = await page.query_selector(...); `else: break`
RnQuery(found) ==
    /\ rn_pc = "query"
    /\ rn_trace' = Append(rn_trace, RnEvent("query", <<>>, found))
    /\ rn_pc' = IF found THEN "click" ELSE "close"
    /\ UNCHANGED <<rn_max_pages, rn_frames, rn_page_num, rn_browser, rn_jobs, notRnVars>>

\* await next_button.click(); await asyncio.sleep(3): the next page of
\* results is shown, with the frames it has.
RnClick(nframes) ==
    /\ rn_pc = "click"
    /\ rn_trace' = Append(rn_trace, RnEvent("click", <<>>, FALSE))
    /\ rn_frames' = nframes
    /\ rn_pc' = "loop"
    /\ UNCHANGED <<rn_max_pages, rn_page_num, rn_browser, rn_jobs, notRnVars>>

\* goto, wait_for_selector, content, query_selector or click raises:
\* `except Exception` logs, then the finally block runs.
RnRaises ==
    /\ \/ rn_pc \in {"goto", "content", "query", "click"}
       \/ rn_pc = "loop" /\ AnotherPage(rn_page_num, rn_max_pages)
    /\ rn_trace' = Append(rn_trace, RnEvent("raise", <<>>, FALSE))
    /\ rn_pc' = AfterRaises
    /\ UNCHANGED <<rn_max_pages, rn_frames, rn_page_num, rn_browser, rn_jobs, notRnVars>>

\* finally: await browser.close(); then `return jobs`
RnClose ==
    /\ rn_pc = "close"
    /\ rn_browser' = "closed"
    /\ rn_pc' = "returned"
    /\ UNCHANGED <<rn_max_pages, rn_frames, rn_page_num, rn_jobs, rn_trace, notRnVars>>

RnNext ==
    \/ RnLaunch
    \/ RnNewPage
    \/ RnSetupRaises
    \/ RnGoto
    \/ RnLoop
    \/ \E elems \in SeqsUpTo(RenderedTexts, MaxElems) : RnParse(elems)
    \/ \E found \in BOOLEAN : RnQuery(found)
    \/ \E nframes \in 1..3 : RnClick(nframes)
    \/ RnRaises
    \/ RnClose

\* ------------------------------------------------------------------------
\* CompanyListsScraper._playwright_scrape
\* ------------------------------------------------------------------------
\* popup_selectors of the three configured sites.
PopupSelectors(key) ==
    CASE key = "latka" -> <<"div.popup-close", "button[aria-label='Close']", "button.close">>
      [] key = "apmlist" -> <<>>
      [] OTHER -> <<"div.popup-close", "button.close">>

\* What trying one popup selector can do: wait_for_selector times out, the
\* popup is found but not visible, it is clicked, or the click raises.
PopupOutcomes == {"timeout", "hidden", "clicked", "click_raises"}

\* The bare `except: pass` around one popup selector: whatever the attempt
\* did, the for loop goes on.
AfterPopupPropagates(outcome) ==
    IF outcome \in {"timeout", "click_raises"} THEN "returned" ELSE "popup"

AfterPopup(outcome) == "popup"

SrIdle ==
    /\ sr_key = "latka"
    /\ sr_pc = "idle"
    /\ sr_popup_idx = 0
    /\ sr_browser = "none"
    /\ sr_names = 0
    /\ sr_trace = <<>>
    /\ sr_items = <<>>

SrStart ==
    /\ sr_key \in ConfiguredSites
    /\ sr_pc = "launch"
    /\ sr_popup_idx = 0
    /\ sr_browser = "none"
    /\ sr_names = 0
    /\ sr_trace = <<>>
    /\ sr_items = <<>>

\* browser = p.chromium.launch(**launch_args)
SrLaunch ==
    /\ sr_pc = "launch"
    /\ sr_browser' = "open"
    /\ sr_pc' = "setup"
    /\ UNCHANGED <<sr_key, sr_popup_idx, sr_names, sr_trace, sr_items, notSrVars>>

\* new_context, new_page, stealth_sync, set_extra_http_headers
SrSetup ==
    /\ sr_pc = "setup"
    /\ sr_pc' = "goto"
    /\ UNCHANGED <<sr_key, sr_popup_idx, sr_browser, sr_names, sr_trace, sr_items, notSrVars>>

\* page.goto(url, timeout=90000, wait_until="domcontentloaded")
SrGoto ==
    /\ sr_pc = "goto"
    /\ sr_popup_idx' = 1
    /\ sr_pc' = "popup"
    /\ UNCHANGED <<sr_key, sr_browser, sr_names, sr_trace, sr_items, notSrVars>>

\* One iteration of `for sel in popup_selectors`, its try and bare except.
SrPopup(outcome) ==
    /\ sr_pc = "popup"
    /\ sr_popup_idx <= Len(PopupSelectors(sr_key))
    /\ sr_trace' = Append(sr_trace, <<PopupSelectors(sr_key)[sr_popup_idx], outcome>>)
    /\ sr_popup_idx' = sr_popup_idx + 1
    /\ sr_pc' = AfterPopup(outcome)
    /\ UNCHANGED <<sr_key, sr_browser, sr_names, sr_items, notSrVars>>

\* What page.content() was found to be.
Content(cloudflare) == <<"content", IF cloudflare THEN "cloudflare" ELSE "clean">>

\* The body of the cloudflare test: page.wait_for_timeout(10000), then
\* page.reload(wait_until="domcontentloaded").
ChallengeStepsNoCooldown(cloudflare) ==
    IF cloudflare THEN << <<"reload", "">> >> ELSE <<>>

ChallengeSteps(cloudflare) ==
    IF cloudflare THEN << <<"wait_for_timeout", "10000">>, <<"reload", "">> >> ELSE <<>>

\* `if "cloudflare" in page.content().lower():` wait 10 s and reload.
SrChallenge(cloudflare) ==
    /\ sr_pc = "popup"
    /\ sr_popup_idx > Len(PopupSelectors(sr_key))
    /\ sr_trace' = Append(sr_trace, Content(cloudflare)) \o ChallengeSteps(cloudflare)
    /\ sr_pc' = "scroll"
    /\ UNCHANGED <<sr_key, sr_popup_idx, sr_browser, sr_names, sr_items, notSrVars>>

\* The five mouse.wheel / wait_for_timeout rounds.
SrScroll ==
    /\ sr_pc = "scroll"
    /\ sr_pc' = "wait_selector"
    /\ UNCHANGED <<sr_key, sr_popup_idx, sr_browser, sr_names, sr_trace, sr_items, notSrVars>>

\* page.wait_for_selector(wait_selector) in its try/except (found or not),
\* then content = page.content() with n elements matching selector_name;
\* the content may (still) be that of a challenge page.
SrContent(n, cloudflare) ==
    /\ sr_pc = "wait_selector"
    /\ sr_names' = n
    /\ sr_trace' = Append(sr_trace, Content(cloudflare))
    /\ sr_pc' = "close"
    /\ UNCHANGED <<sr_key, sr_popup_idx, sr_browser, sr_items, notSrVars>>

\* browser.close(), the last statement of the with block.
SrClose ==
    /\ sr_pc = "close"
    /\ sr_browser' = "closed"
    /\ sr_pc' = "parse"
    /\ UNCHANGED <<sr_key, sr_popup_idx, sr_names, sr_trace, sr_items, notSrVars>>

\* The parse loop and `return items`.
SrParse ==
    /\ sr_pc = "parse"
    /\ sr_items' = ItemsOf(sr_key, "playwright", sr_names)
    /\ sr_pc' = "returned"
    /\ UNCHANGED <<sr_key, sr_popup_idx, sr_browser, sr_names, sr_trace, notSrVars>>

\* A statement outside the two inner try blocks raises (launch, new_context,
\* new_page, goto, page.content, reload, mouse.wheel, wait_for_timeout):
\* the outer except of line 272 logs and the method returns the empty items;
\* browser.close() of line 256 is skipped and nothing else closes the browser.
SrRaises ==
    /\ \/ sr_pc \in {"launch", "setup", "goto", "scroll", "wait_selector"}
       \/ sr_pc = "popup" /\ sr_popup_idx > Len(PopupSelectors(sr_key))
    /\ sr_trace' = Append(sr_trace, <<"raise", sr_pc>>)
    /\ sr_pc' = "returned"
    /\ UNCHANGED <<sr_key, sr_popup_idx, sr_browser, sr_names, sr_items, notSrVars>>

SrNext ==
    \/ SrLaunch
    \/ SrSetup
    \/ SrGoto
    \/ \E outcome \in PopupOutcomes : SrPopup(outcome)
    \/ \E cloudflare \in BOOLEAN : SrChallenge(cloudflare)
    \/ SrScroll
    \/ \E n \in 0..MaxItems, cloudflare \in BOOLEAN : SrContent(n, cloudflare)
    \/ SrClose
    \/ SrParse
    \/ SrRaises

\* ------------------------------------------------------------------------
\* filter_jobs(jobs, filter_config)
\*
\* A string is a sequence of one-character strings; a dict is a function
\* whose domain is the set of its keys.
\* ------------------------------------------------------------------------
\* str.lower(), character by character.
LowerChar(c) ==
    CASE c = "C" -> "c" [] c = "E" -> "e" [] c = "F" -> "f" [] c = "G" -> "g"
      [] c = "N" -> "n" [] c = "O" -> "o" [] c = "P" -> "p" [] c = "R" -> "r"
      [] c = "S" -> "s" [] OTHER -> c
StrLower(str) == [i \in 1..Len(str) |-> LowerChar(str[i])]

\* `needle in hay` on strings.
Contains(needle, hay) ==
    \E i \in 0..(Len(hay) - Len(needle)) : SubSeq(hay, i + 1, i + Len(needle)) = needle

\* dict.get(key, default)
Get(d, key, default) == IF key \in DOMAIN d THEN d[key] ELSE default

\* An int, and a str, as the value of a job's experience.
Num(n) == [kind |-> "int", val |-> n]
Text == [kind |-> "str"]

\* The defaults of min_experience_years and max_experience_years.
DEFAULT_MIN_EXPERIENCE == 0
DEFAULT_MAX_EXPERIENCE == 100

\* `if not filter_config:`: None and the empty dict.
ConfigFalsy(cfg) == cfg = None \/ DOMAIN cfg = {}

\* any(t.lower() in job[key].lower() for t in strs)
AnyIn(strs, job, key) ==
    \E i \in 1..Len(strs) : Contains(StrLower(strs[i]), StrLower(job[key]))

\* title_ok = any(t.lower() in job["title"].lower() for t in job_titles)
TitleOk(job, job_titles) == AnyIn(job_titles, job, "title")

\* experience_ok: False only when the job has a non-None experience outside
\* min_experience <= experience <= max_experience.
ExperienceOkExclusive(job, min_experience, max_experience) ==
    IF "experience" \in DOMAIN job /\ job.experience # None
      THEN min_experience < job.experience.val /\ job.experience.val < max_experience
      ELSE TRUE
ExperienceOk(job, min_experience, max_experience) ==
    IF "experience" \in DOMAIN job /\ job.experience # None
      THEN min_experience <= job.experience.val /\ job.experience.val <= max_experience
      ELSE TRUE

\* location_ok and job_type_ok: True when the configured list is empty.
ListOk(job, key, strs) == strs = <<>> \/ AnyIn(strs, job, key)

\* The loop body raises: TypeError when an int is compared with a str
\* experience, KeyError when job["location"] or job["job_type"] is read
\* from a job without that key.
JobRaises(job, cfg) ==
    \/ "experience" \in DOMAIN job /\ job.experience = Text
    \/ Get(cfg, "locations", <<>>) # <<>> /\ "location" \notin DOMAIN job
    \/ Get(cfg, "job_type", <<>>) # <<>> /\ "job_type" \notin DOMAIN job

\* filtered.append(job)
KeepInFront(filtered, job) == <<job>> \o filtered
Keep(filtered, job) == Append(filtered, job)

\* The four flags of one loop iteration.
Checks(job, cfg) ==
    [title_ok |-> TitleOk(job, Get(cfg, "job_titles", <<>>)),
     experience_ok |-> ExperienceOk(job,
                           Get(cfg, "min_experience_years", DEFAULT_MIN_EXPERIENCE),
                           Get(cfg, "max_experience_years", DEFAULT_MAX_EXPERIENCE)),
     location_ok |-> ListOk(job, "location", Get(cfg, "locations", <<>>)),
     job_type_ok |-> ListOk(job, "job_type", Get(cfg, "job_type", <<>>))]

\* Jobs: a title, and optionally experience, location and job_type.
JobPool ==
    {[title |-> <<"S", "r", " ", "E", "n", "g">>, experience |-> Num(6),
      location |-> <<"R", "e", "m", "o", "t", "e">>],
     [title |-> <<"E", "n", "g">>],
     [title |-> <<"C", "h", "e", "f">>, experience |-> None,
      location |-> <<"O", "s", "l", "o">>, job_type |-> <<"F", "u", "l", "l">>],
     [title |-> <<"E", "N", "G">>, experience |-> Num(3),
      location |-> <<"r", "e", "m", "o", "t", "e">>, job_type |-> <<"P", "a", "r", "t">>],
     [title |-> <<"E", "n", "g">>, experience |-> Num(8),
      location |-> <<"O", "s", "l", "o">>, job_type |-> <<"F", "u", "l", "l">>],
     [title |-> <<"C", "h", "e", "f">>, experience |-> Num(9),
      location |-> <<"R", "e", "m", "o", "t", "e">>, job_type |-> <<"F", "u", "l", "l">>],
     [title |-> <<"E", "n", "g">>, experience |-> Num(2),
      location |-> <<"R", "e", "m", "o", "t", "e">>, job_type |-> <<"F", "u", "l", "l">>],
     [title |-> <<"E", "n", "g">>, experience |-> Num(101),
      location |-> <<"R", "e", "m", "o", "t", "e">>, job_type |-> <<"F", "u", "l", "l">>],
     [title |-> <<"E", "n", "g">>, experience |-> Text,
      location |-> <<"R", "e", "m", "o", "t", "e">>, job_type |-> <<"F", "u", "l", "l">>]}

\* Filter configurations: every key may be missing; lists may be empty.
FullConfigs ==
    [job_titles : {<<>>, << <<"e", "n", "g">> >>},
     min_experience_years : {3},
     max_experience_years : {8, 2},
     locations : {<<>>, << <<"r", "e", "m", "o", "t", "e">> >>},
     job_type : {<<>>, << <<"F", "U", "L", "L">> >>}]
ConfigKeys ==
    {"job_titles", "min_experience_years", "max_experience_years", "locations", "job_type"}
ConfigPool ==
    {None} \cup {[k \in keys |-> full[k]] : full \in FullConfigs, keys \in SUBSET ConfigKeys}

FilterIdle ==
    /\ f_jobs = <<>>
    /\ f_config = None
    /\ f_pc = "idle"
    /\ f_idx = 0
    /\ f_filtered = <<>>
    /\ f_checks = <<>>
    /\ f_ret = <<>>

FilterStart ==
    /\ f_jobs \in SeqsUpTo(JobPool, MaxFilterJobs)
    /\ f_config \in ConfigPool
    /\ f_pc = "call"
    /\ f_idx = 0
    /\ f_filtered = <<>>
    /\ f_checks = <<>>
    /\ f_ret = <<>>

\* `if not filter_config: return jobs`, else the .get calls and filtered = [].
FilterEnter ==
    /\ f_pc = "call"
    /\ IF ConfigFalsy(f_config)
         THEN /\ f_ret' = f_jobs
              /\ f_pc' = "returned"
              /\ f_idx' = f_idx
         ELSE /\ f_ret' = f_ret
              /\ f_pc' = "loop"
              /\ f_idx' = 1
    /\ UNCHANGED <<f_jobs, f_config, f_filtered, f_checks, notFVars>>

\* One iteration of `for job in jobs`.
FilterJob ==
    /\ f_pc = "loop"
    /\ f_idx <= Len(f_jobs)
    /\ ~JobRaises(f_jobs[f_idx], f_config)
    /\ LET job == f_jobs[f_idx]
           c == Checks(job, f_config)
       IN /\ f_checks' = Append(f_checks, c)
          /\ f_filtered' =
                 IF c.title_ok /\ c.experience_ok /\ c.location_ok /\ c.job_type_ok
                   THEN Keep(f_filtered, job) ELSE f_filtered
    /\ f_idx' = f_idx + 1
    /\ UNCHANGED <<f_jobs, f_config, f_pc, f_ret, notFVars>>

\* The iteration raises; filter_jobs has no try, the error leaves it.
FilterJobRaises ==
    /\ f_pc = "loop"
    /\ f_idx <= Len(f_jobs)
    /\ JobRaises(f_jobs[f_idx], f_config)
    /\ f_pc' = "raised"
    /\ UNCHANGED <<f_jobs, f_config, f_idx, f_filtered, f_checks, f_ret, notFVars>>

\* `return filtered`
FilterReturn ==
    /\ f_pc = "loop"
    /\ f_idx > Len(f_jobs)
    /\ f_ret' = f_filtered
    /\ f_pc' = "returned"
    /\ UNCHANGED <<f_jobs, f_config, f_idx, f_filtered, f_checks, notFVars>>

FilterNext ==
    \/ FilterEnter
    \/ FilterJob
    \/ FilterJobRaises
    \/ FilterReturn

\* ------------------------------------------------------------------------
\* CrewAILLMService.parse_jobs_with_llm(company_url)
\* ------------------------------------------------------------------------
\* The length under which the cleaned text is not sent to the LLM.
MIN_HTML_LEN == 100

\* Lengths of the cleaned text: empty ("" is also what fetch_clean_html
\* returns when loading raised), short, and around the threshold.
HtmlLens == {0, 1, MIN_HTML_LEN - 1, MIN_HTML_LEN, MIN_HTML_LEN + 1}

\* `if not html_text or len(html_text) < 100:`
Insufficient(len) == len = 0 \/ len < MIN_HTML_LEN

\* Items of a JSON list: a dict with every JobPosting field, a dict with a
\* title only, a dict without a title, a value that is not a dict.
ItemKinds == {"full", "title_only", "no_title", "not_dict"}

\* What self.agent.chat(prompt) can do: raise, or answer with text that does
\* not start with "[" (prose, or a JSON value that is no list), with text
\* that starts with "[" but is not JSON, or with a JSON list.
LlmOutputs ==
    {[kind |-> k, items |-> <<>>] : k \in {"raises", "prose", "json_object", "broken_list"}}
        \cup {[kind |-> "list", items |-> its] : its \in SeqsUpTo(ItemKinds, MaxLlmItems)}

\* JobPosting(**item).dict(): missing fields take the defaults of the model.
PostingOf(kind, i) ==
    [title |-> i,
     location |-> IF kind = "full" THEN "given" ELSE "Unknown",
     job_type |-> IF kind = "full" THEN "given" ELSE "Unknown",
     experience |-> IF kind = "full" THEN "given" ELSE "Unknown",
     description |-> IF kind = "full" THEN "given" ELSE "",
     url |-> IF kind = "full" THEN "given" ELSE ""]

\* [JobPosting(**item).dict() for item in parsed_data if isinstance(item, dict)]
RECURSIVE Postings(_, _)
Postings(items, i) ==
    IF i > Len(items) THEN <<>>
    ELSE (IF items[i] = "not_dict" THEN <<>> ELSE <<PostingOf(items[i], i)>>)
            \o Postings(items, i + 1)

\* The try block: an exception of chat, of json.loads or of JobPosting (a
\* dict without the required title) is caught and gives []; text that does
\* not start with "[" is parsed as [].
ParseOutputUnguarded(out) == Postings(out.items, 1)
ParseOutput(out) ==
    IF out.kind # "list" THEN <<>>
    ELSE IF \E i \in 1..Len(out.items) : out.items[i] = "no_title" THEN <<>>
    ELSE Postings(out.items, 1)

LpIdle ==
    /\ lp_pc = "idle"
    /\ lp_html_len = 0
    /\ lp_output = NotYet
    /\ lp_chats = 0
    /\ lp_ret = <<>>

LpStart ==
    /\ lp_pc = "fetch"
    /\ lp_html_len = 0
    /\ lp_output = NotYet
    /\ lp_chats = 0
    /\ lp_ret = <<>>

\* html_text = await self.fetch_clean_html(company_url) and the length test.
LpFetch(len) ==
    /\ lp_pc = "fetch"
    /\ lp_html_len' = len
    /\ lp_pc' = IF Insufficient(len) THEN "returned" ELSE "chat"
    /\ UNCHANGED <<lp_output, lp_chats, lp_ret, notLpVars>>

\* fetch_clean_html raises (launch or new_page, before its try): line 112
\* is outside the try of parse_jobs_with_llm.
LpFetchRaises ==
    /\ lp_pc = "fetch"
    /\ lp_pc' = "raised"
    /\ UNCHANGED <<lp_html_len, lp_output, lp_chats, lp_ret, notLpVars>>

\* The try block: the chat call and the parsing of its answer.
LpChat(out) ==
    /\ lp_pc = "chat"
    /\ lp_output' = out
    /\ lp_chats' = lp_chats + 1
    /\ lp_ret' = ParseOutput(out)
    /\ lp_pc' = "returned"
    /\ UNCHANGED <<lp_html_len, notLpVars>>

LpNext ==
    \/ \E len \in HtmlLens : LpFetch(len)
    \/ LpFetchRaises
    \/ \E out \in LlmOutputs : LpChat(out)

\* ------------------------------------------------------------------------
\* CompanyListsScraper.__init__ and langchain_agent.py's SiteScraper.__init__
\* building a CrewAILLMService, and scrape_all_sites on the built scraper
\* ------------------------------------------------------------------------
\* CrewAILLMService.__init__: `if not self.api_key: raise ValueError(...)`.
ServiceRaises(key) == ~key

\* Is the ValueError of the service caught by the constructor? Lines 72-82 of
\* company_lists_scraper.py wrap the call in try/except Exception; line 36
\* of langchain_agent.py calls it bare.
Caught(im) == im = "company_lists_scraper"

CtIdle ==
    /\ ct_impl = "company_lists_scraper"
    /\ ct_use_llm = FALSE
    /\ ct_key = FALSE
    /\ ct_pc = "idle"
    /\ ct_llm_service = FALSE

CtStart ==
    /\ ct_impl \in {"company_lists_scraper", "langchain_agent"}
    /\ ct_use_llm \in BOOLEAN
    /\ ct_key \in BOOLEAN
    /\ ct_pc = "construct"
    /\ ct_llm_service = FALSE

\* __init__: llm_service is None unless the LLM is wanted and the service
\* could be built.
CtConstruct ==
    /\ ct_pc = "construct"
    /\ IF ct_use_llm /\ ServiceRaises(ct_key) /\ ~Caught(ct_impl)
         THEN /\ ct_pc' = "raised"
              /\ ct_llm_service' = FALSE
         ELSE /\ ct_pc' = "constructed"
              /\ ct_llm_service' = (ct_use_llm /\ ~ServiceRaises(ct_key))
    /\ UNCHANGED <<ct_impl, ct_use_llm, ct_key, siteVars, notCtVars>>

\* scrape_all_sites(latka, apmlist, growthlist) on the constructed
\* CompanyListsScraper.
CtScrapeAllSites(tg) ==
    /\ ct_pc = "constructed"
    /\ ct_impl = "company_lists_scraper"
    /\ site_pc = "idle"
    /\ toggles' = tg
    /\ cls_llm' = ct_llm_service
    /\ site_idx' = 1
    /\ site_pc' = "loop"
    /\ UNCHANGED <<site_calls, site_rets, final_list, ctVars, notCtVars>>

CtNext ==
    \/ CtConstruct
    \/ \E tg \in [ConfiguredSites -> BOOLEAN] : CtScrapeAllSites(tg)
    \/ SitesNext

\* ------------------------------------------------------------------------
\* job_main.main
\* ------------------------------------------------------------------------
\* `except Exception` around agent.invoke: the loop goes on with the next
\* company.
AfterInvokeRaisesAborts == "raised"
AfterInvokeRaises == "loop"

\* scraped_jobs.extend(jobs) for the n jobs of company i (`if jobs:`).
Extend(scraped, i, n) == scraped \o [k \in 1..n |-> <<i, k>>]

MainIdle ==
    /\ m_seed = 0
    /\ m_pc = "idle"
    /\ m_idx = 0
    /\ m_invoked = <<>>
    /\ m_scraped = <<>>
    /\ m_written = NotYet

MainStart ==
    /\ m_seed \in 0..MaxCompanies
    /\ m_pc = "load"
    /\ m_idx = 0
    /\ m_invoked = <<>>
    /\ m_scraped = <<>>
    /\ m_written = NotYet

\* company_websites = load_company_websites(CSV_FILE); empty: return.
MainLoad ==
    /\ m_pc = "load"
    /\ m_pc' = IF m_seed = 0 THEN "stopped" ELSE "agent"
    /\ UNCHANGED <<m_seed, m_idx, m_invoked, m_scraped, m_written, notMVars>>

\* load_yaml_config and agent = create_scraper_agent(): the agent is built,
\* or one of the constructors it calls raises and main raises with it.
MainAgent(built) ==
    /\ m_pc = "agent"
    /\ m_pc' = IF built THEN "loop" ELSE "raised"
    /\ m_idx' = IF built THEN 1 ELSE m_idx
    /\ UNCHANGED <<m_seed, m_invoked, m_scraped, m_written, notMVars>>

\* One iteration: agent.invoke returns n jobs under "jobs".
MainInvoke(n) ==
    /\ m_pc = "loop"
    /\ m_idx <= m_seed
    /\ m_invoked' = Append(m_invoked, n)
    /\ m_scraped' = Extend(m_scraped, m_idx, n)
    /\ m_idx' = m_idx + 1
    /\ UNCHANGED <<m_seed, m_pc, m_written, notMVars>>

\* One iteration: agent.invoke (or response.get) raises.
MainInvokeRaises ==
    /\ m_pc = "loop"
    /\ m_idx <= m_seed
    /\ m_invoked' = Append(m_invoked, -1)
    /\ m_idx' = m_idx + 1
    /\ m_pc' = AfterInvokeRaises
    /\ UNCHANGED <<m_seed, m_scraped, m_written, notMVars>>

\* The loop is over: on to `job_filters = config.get("job_filters", {})`.
MainLoopDone ==
    /\ m_pc = "loop"
    /\ m_idx > m_seed
    /\ m_pc' = "filter"
    /\ UNCHANGED <<m_seed, m_idx, m_invoked, m_scraped, m_written, notMVars>>

\* filtered_jobs = filter_jobs(scraped_jobs, job_filters) and json.dump of
\* it to OUTPUT_FILE: a list is written (here the first kept jobs), or
\* filter_jobs raises.
MainFilter(kept, raises) ==
    /\ m_pc = "filter"
    /\ IF raises
         THEN /\ m_pc' = "raised"
              /\ m_written' = m_written
         ELSE /\ m_pc' = "done"
              /\ m_written' = SubSeq(m_scraped, 1, kept)
    /\ UNCHANGED <<m_seed, m_idx, m_invoked, m_scraped, notMVars>>

MainNext ==
    \/ MainLoad
    \/ \E built \in BOOLEAN : MainAgent(built)
    \/ \E n \in 0..MaxJobs : MainInvoke(n)
    \/ MainInvokeRaises
    \/ MainLoopDone
    \/ \E kept \in 0..Len(m_scraped), raises \in BOOLEAN : MainFilter(kept, raises)

\* ------------------------------------------------------------------------
\* google_sheets_service.GoogleSheetsService.ensure_columns_exist
\* ------------------------------------------------------------------------
MaxCols == 2
MaxRows == 2
MaxCalls == 2

Columns == {"Company", "Title", "URL"}
DataRows == {<<"acme", "dev">>}

Cells(row) == {row[i] : i \in 1..Len(row)}

\* Worksheet.append_row(values): the row goes after the last row that
\* holds values.
AppendRow(rows, values) == Append(rows, values)

\* Worksheet.insert_row(values, index=1): a new row at position index; the
\* rows from there on move one down.
InsertRow(rows, values, index) ==
    SubSeq(rows, 1, index - 1) \o <<values>> \o SubSeq(rows, index, Len(rows))

\* missing_columns = [col for col in required_columns
\*                    if col not in existing_columns]
MissingColumns(required, existing_columns) ==
    SelectSeq(required, LAMBDA col : col \notin Cells(existing_columns))

\* updated_header = existing_columns + missing_columns
UpdatedHeaderOnlyMissing(existing_columns, missing_columns) == missing_columns

UpdatedHeader(existing_columns, missing_columns) == existing_columns \o missing_columns

\* The worksheets a call can meet: no row at all, or a first row (possibly
\* blank, complete or lacking columns) followed by data rows.
SheetPool ==
    {<<>>} \cup
    {<<header>> \o data : header \in SeqsUpTo(Columns, MaxCols),
                          data \in SeqsUpTo(DataRows, MaxRows - 1)}
RequiredPool == SeqsUpTo(Columns, MaxCols) \ {<<>>}

EnsureIdle ==
    /\ gs_rows = <<>>
    /\ gs_required = <<>>
    /\ gs_pc = "idle"
    /\ gs_existing = <<>>
    /\ gs_start = <<>>
    /\ gs_raised = FALSE
    /\ gs_count = 0

EnsureStart ==
    /\ gs_rows \in SheetPool
    /\ gs_required \in RequiredPool
    /\ gs_pc = "read"
    /\ gs_existing = <<>>
    /\ gs_start = gs_rows
    /\ gs_raised = FALSE
    /\ gs_count = 0

\* existing_values = self.sheet.get_all_values()
EnsureGetAllValues ==
    /\ gs_pc = "read"
    /\ gs_existing' = gs_rows
    /\ gs_pc' = "decide"
    /\ UNCHANGED <<gs_rows, gs_required, gs_start, gs_raised, gs_count, notGsVars>>

\* if not existing_values: self.sheet.append_row(required_columns); return
EnsureAppendRow ==
    /\ gs_pc = "decide"
    /\ gs_existing = <<>>
    /\ gs_rows' = AppendRow(gs_rows, gs_required)
    /\ gs_pc' = "returned"
    /\ gs_count' = gs_count + 1
    /\ UNCHANGED <<gs_required, gs_existing, gs_start, gs_raised, notGsVars>>

\* if missing_columns: self.sheet.insert_row(updated_header, index=1)
EnsureInsertRow ==
    /\ gs_pc = "decide"
    /\ gs_existing # <<>>
    /\ LET existing_columns == gs_existing[1]
           missing_columns == MissingColumns(gs_required, existing_columns)
       IN  /\ missing_columns # <<>>
           /\ gs_rows' = InsertRow(gs_rows,
                                   UpdatedHeader(existing_columns, missing_columns), 1)
    /\ gs_pc' = "returned"
    /\ gs_count' = gs_count + 1
    /\ UNCHANGED <<gs_required, gs_existing, gs_start, gs_raised, notGsVars>>

\* No column is missing: the if is skipped and the call returns.
EnsureNothingMissing ==
    /\ gs_pc = "decide"
    /\ gs_existing # <<>>
    /\ MissingColumns(gs_required, gs_existing[1]) = <<>>
    /\ gs_pc' = "returned"
    /\ gs_count' = gs_count + 1
    /\ UNCHANGED <<gs_rows, gs_required, gs_existing, gs_start, gs_raised, notGsVars>>

\* get_all_values, append_row or insert_row raises: `except Exception` logs
\* the error and the call returns with the worksheet as it was.
EnsureRaises ==
    /\ \/ gs_pc = "read"
       \/ /\ gs_pc = "decide"
          /\ IF gs_existing = <<>>
                THEN TRUE
                ELSE MissingColumns(gs_required, gs_existing[1]) # <<>>
    /\ gs_raised' = TRUE
    /\ gs_pc' = "returned"
    /\ gs_count' = gs_count + 1
    /\ UNCHANGED <<gs_rows, gs_required, gs_existing, gs_start, notGsVars>>

\* The next call with the same required_columns (append_jobs calls
\* ensure_columns_exist on every batch).
EnsureAgain ==
    /\ gs_pc = "returned"
    /\ gs_count < MaxCalls
    /\ gs_pc' = "read"
    /\ gs_start' = gs_rows
    /\ gs_raised' = FALSE
    /\ UNCHANGED <<gs_rows, gs_required, gs_existing, gs_count, notGsVars>>

EnsureNext ==
    \/ EnsureGetAllValues
    \/ EnsureAppendRow
    \/ EnsureInsertRow
    \/ EnsureNothingMissing
    \/ EnsureRaises
    \/ EnsureAgain

\* ------------------------------------------------------------------------
\* Specifications
\* ------------------------------------------------------------------------
FetchInit == FetchStart /\ AggIdle /\ CascIdle /\ SitesIdle /\ LocIdle /\ RnIdle /\ SrIdle /\ FilterIdle /\ LpIdle
    /\ CtIdle /\ MainIdle /\ EnsureIdle
SpecFetch == FetchInit /\ [][FetchNext]_vars

AggInit == AggStart /\ FetchIdle /\ CascIdle /\ SitesIdle /\ LocIdle /\ RnIdle /\ SrIdle /\ FilterIdle /\ LpIdle
    /\ CtIdle /\ MainIdle /\ EnsureIdle
SpecAgg == AggInit /\ [][AggNext]_vars

CascInit == CascStart /\ FetchIdle /\ AggIdle /\ SitesIdle /\ LocIdle /\ RnIdle /\ SrIdle /\ FilterIdle /\ LpIdle
    /\ CtIdle /\ MainIdle /\ EnsureIdle
SpecCascade == CascInit /\ [][CascNext]_vars

SitesInit == SitesStart /\ FetchIdle /\ AggIdle /\ CascIdle /\ LocIdle /\ RnIdle /\ SrIdle /\ FilterIdle /\ LpIdle
    /\ CtIdle /\ MainIdle /\ EnsureIdle
SpecSites == SitesInit /\ [][SitesNext]_vars

LocInit == LocStart /\ FetchIdle /\ AggIdle /\ CascIdle /\ SitesIdle /\ RnIdle /\ SrIdle /\ FilterIdle /\ LpIdle
    /\ CtIdle /\ MainIdle /\ EnsureIdle
SpecLocate == LocInit /\ [][LocNext]_vars

RnInit == RnStart /\ FetchIdle /\ AggIdle /\ CascIdle /\ SitesIdle /\ LocIdle /\ SrIdle /\ FilterIdle /\ LpIdle
    /\ CtIdle /\ MainIdle /\ EnsureIdle
SpecRendered == RnInit /\ [][RnNext]_vars

SrInit ==
    SrStart /\ FetchIdle /\ AggIdle /\ CascIdle /\ SitesIdle /\ LocIdle /\ RnIdle /\ FilterIdle
        /\ LpIdle /\ CtIdle /\ MainIdle /\ EnsureIdle
SpecSiteRendered == SrInit /\ [][SrNext]_vars

FilterInit ==
    FilterStart /\ FetchIdle /\ AggIdle /\ CascIdle /\ SitesIdle /\ LocIdle /\ RnIdle /\ SrIdle
        /\ LpIdle /\ CtIdle /\ MainIdle /\ EnsureIdle
SpecFilter == FilterInit /\ [][FilterNext]_vars

LpInit ==
    LpStart /\ FetchIdle /\ AggIdle /\ CascIdle /\ SitesIdle /\ LocIdle /\ RnIdle /\ SrIdle
        /\ FilterIdle /\ CtIdle /\ MainIdle /\ EnsureIdle
SpecLlmParse == LpInit /\ [][LpNext]_vars

CtInit ==
    CtStart /\ FetchIdle /\ AggIdle /\ CascIdle /\ SitesIdle /\ LocIdle /\ RnIdle /\ SrIdle
        /\ FilterIdle /\ LpIdle /\ MainIdle /\ EnsureIdle
SpecConstruct == CtInit /\ [][CtNext]_vars

MainInit ==
    MainStart /\ FetchIdle /\ AggIdle /\ CascIdle /\ SitesIdle /\ LocIdle /\ RnIdle /\ SrIdle
        /\ FilterIdle /\ LpIdle /\ CtIdle /\ EnsureIdle
SpecMain == MainInit /\ [][MainNext]_vars

EnsureInit ==
    EnsureStart /\ FetchIdle /\ AggIdle /\ CascIdle /\ SitesIdle /\ LocIdle /\ RnIdle /\ SrIdle
        /\ FilterIdle /\ LpIdle /\ CtIdle /\ MainIdle
SpecEnsure == EnsureInit /\ [][EnsureNext]_vars

\* main runs to its end once started: asyncio.run(main()) drives it.
SpecMainFair == SpecMain /\ WF_vars(MainNext)

\* ------------------------------------------------------------------------
\* Claims about the retrying fetch
\* ------------------------------------------------------------------------
IsResponse(out) == out.kind = "response"

\* Indices of the first GETs (one per attempt) and of the redirect re-fetches.
GetIdx == {i \in 1..Len(get_log) : get_log[i].kind = "get"}
RefetchIdx == {i \in 1..Len(get_log) : get_log[i].kind = "refetch"}

NonDecreasing(s) == \A i \in 1..Len(s) : \A j \in i..Len(s) : s[i] <= s[j]

\* Every GET of the call so far answered 500.
All500 ==
    \A i \in 1..Len(get_log) :
        /\ get_log[i].kind = "get"
        /\ IsResponse(get_log[i].outcome)
        /\ get_log[i].outcome.status_code = 500

\* C6: against an endpoint that always answers 500 the fetch issues exactly
\* MAX_RETRIES GETs, then returns None, and the delays it takes are
\* non-decreasing; until it has returned it can always take its next step.
C6_AlwaysFailingFetch ==
    All500 =>
        /\ Len(get_log) <= MAX_RETRIES
        /\ NonDecreasing(delays)
        /\ fetch_pc \in {"get", "sleep", "returned"}
        /\ fetch_pc = "returned" => (Len(get_log) = MAX_RETRIES /\ fetch_ret = None)
        /\ fetch_pc # "returned" => ENABLED FetchNext

C6_Witness ==
    /\ All500
    /\ fetch_pc = "returned"
    /\ fetch_ret = None
    /\ Len(get_log) = MAX_RETRIES
    /\ Len(delays) >= 2
    /\ delays[1] < delays[2]

\* C7 (as claimed): whatever the fetch returns other than None is a response
\* with status code 200.
C7_ReturnsOnly200 ==
    (fetch_pc = "returned" /\ fetch_ret # None) => fetch_ret.status_code = 200

\* The attempt whose first GET is get_log[i] failed: the GET raised or was not
\* a 200, or it was a redirected 200 whose re-fetch raised.
AttemptFailed(i) ==
    LET out == get_log[i].outcome IN
    \/ out = RequestException
    \/ IsResponse(out) /\ out.status_code # 200
    \/ /\ i + 1 \in RefetchIdx
       /\ get_log[i + 1].outcome = RequestException

EveryAttemptFailed == \A i \in GetIdx : AttemptFailed(i)

\* C8: when every attempt ends in a non-200 status or a network exception
\* (that of the redirect re-fetch included) the fetch returns None: no
\* exception escapes and no more than MAX_RETRIES attempts are made.
C8_FailuresYieldNone ==
    EveryAttemptFailed =>
        /\ fetch_pc # "raised"
        /\ Cardinality(GetIdx) <= MAX_RETRIES
        /\ fetch_pc = "returned" => fetch_ret = None
        /\ fetch_pc # "returned" => ENABLED FetchNext

C8_Witness ==
    /\ EveryAttemptFailed
    /\ fetch_pc = "returned"
    /\ fetch_ret = None
    /\ \E i \in RefetchIdx : get_log[i].outcome = RequestException
    /\ \E i \in GetIdx : get_log[i].outcome = RequestException
    /\ \E i \in GetIdx : IsResponse(get_log[i].outcome) /\ get_log[i].outcome.status_code = 500

\* A 200 answer without redirect history to a first GET.
Plain200(i) ==
    /\ i \in GetIdx
    /\ IsResponse(get_log[i].outcome)
    /\ get_log[i].outcome.status_code = 200
    /\ ~get_log[i].outcome.history

\* get_log[i] is a re-fetch that directly follows a redirected 200 of the
\* same attempt.
RefetchFollowsRedirected200(i) ==
    /\ i > 1
    /\ get_log[i - 1].kind = "get"
    /\ get_log[i - 1].attempt = get_log[i].attempt
    /\ IsResponse(get_log[i - 1].outcome)
    /\ get_log[i - 1].outcome.status_code = 200
    /\ get_log[i - 1].outcome.history

\* C9 (as claimed): one fetch call re-fetches at most once, only after a
\* redirected 200, returns a plain 200 with no further GET, and issues at most
\* MAX_RETRIES + 1 GETs.
C9_RefetchAtMostOncePerCall ==
    /\ Cardinality(RefetchIdx) <= 1
    /\ \A i \in RefetchIdx : RefetchFollowsRedirected200(i)
    /\ \A i \in 1..Len(get_log) : Plain200(i) => i = Len(get_log)
    /\ Len(get_log) <= MAX_RETRIES + 1

\* C9 (amended): the re-fetch is issued at most once per attempt, only
\* directly after a redirected 200 of that attempt; a plain 200 and a re-fetch
\* that answers end the call with no further GET; one call issues at most
\* 2 * MAX_RETRIES GETs, and at most MAX_RETRIES + 1 when no re-fetch raises.
C9_RefetchAtMostOncePerAttempt ==
    /\ \A i \in RefetchIdx : RefetchFollowsRedirected200(i)
    /\ \A i \in RefetchIdx : \A j \in RefetchIdx :
           get_log[i].attempt = get_log[j].attempt => i = j
    /\ \A i \in GetIdx : \A j \in GetIdx :
           get_log[i].attempt = get_log[j].attempt => i = j
    /\ \A i \in 1..Len(get_log) :
           Plain200(i) =>
               (i = Len(get_log) /\ fetch_pc = "returned" /\ fetch_ret = get_log[i].outcome)
    /\ \A i \in RefetchIdx :
           IsResponse(get_log[i].outcome) =>
               (i = Len(get_log) /\ fetch_pc = "returned" /\ fetch_ret = get_log[i].outcome)
    /\ Len(get_log) <= 2 * MAX_RETRIES
    /\ (\A i \in RefetchIdx : IsResponse(get_log[i].outcome)) =>
           Len(get_log) <= MAX_RETRIES + 1

C9_Witness ==
    /\ fetch_pc = "returned"
    /\ Cardinality(RefetchIdx) = 2
    /\ IsResponse(fetch_ret)
    /\ get_log[Len(get_log)].kind = "refetch"

\* C10 (as claimed): the k-th delay (k from 0) is 2^k, and delays are taken
\* only between two attempts, so a finished call has taken fewer delays than
\* it made attempts.
C10_BackoffOnlyBetweenAttempts ==
    /\ \A k \in 1..Len(delays) : delays[k] = 2 ^ (k - 1)
    /\ fetch_pc = "returned" => Len(delays) < Cardinality(GetIdx)

\* ------------------------------------------------------------------------
\* Claims about the orchestrator
\* ------------------------------------------------------------------------
RECURSIVE Concat(_, _)
Concat(lists, i) == IF i > Len(lists) THEN <<>> ELSE lists[i] \o Concat(lists, i + 1)

\* What each company contributes when a raising task counts as zero jobs.
Contribution == [i \in 1..Len(company_list) |->
                    IF task_state[i] = "done" THEN task_jobs[i] ELSE <<>>]

\* C1 (as claimed): whichever company tasks raise, run is never aborted by
\* the exception, and what it returns is the concatenation of the jobs of the
\* companies that did not raise.
C1_RunSurvivesTaskExceptions ==
    /\ run_pc # "raised"
    /\ run_pc = "returned" => run_ret = Concat(Contribution, 1)

\* Number of jobs that precede the block of company i in the result.
RECURSIVE Offset(_)
Offset(i) == IF i <= 1 THEN 0 ELSE Offset(i - 1) + Len(task_jobs[i - 1])

\* C2: whatever the completion order, the list run returns holds the jobs of
\* each company as one contiguous block, the blocks in the order of the
\* submitted list.
C2_ResultsInSubmissionOrder ==
    run_pc = "returned" =>
        /\ Len(run_ret) = Offset(Len(company_list) + 1)
        /\ \A i \in 1..Len(company_list) : \A k \in 1..Len(task_jobs[i]) :
               /\ run_ret[Offset(i) + k] = task_jobs[i][k]
               /\ run_ret[Offset(i) + k].company = company_list[i]

C2_Witness ==
    /\ run_pc = "returned"
    /\ Len(company_list) >= 3
    /\ done_order[1] > done_order[2]
    /\ Len(task_jobs[1]) >= 1
    /\ Len(task_jobs[2]) = 0
    /\ Len(task_jobs[3]) >= 2

CallIdx == 1..Len(calls)
StaticFound(i) == calls[i].strategy = "NAIVE" /\ calls[i].n >= 1

LogHas(tag) == \E i \in 1..Len(casc_log) : casc_log[i] = tag

LlmIdx == {i \in CallIdx : calls[i].strategy = "LLM"}

\* The strategy was invoked for the page before invocation i, and yielded
\* nothing.
EmptyBefore(strategy, page, i) ==
    \E j \in 1..(i - 1) :
        /\ calls[j].strategy = strategy
        /\ calls[j].page = page
        /\ calls[j].n = 0

StrategyOrder == <<"NAIVE", "RENDERED", "LLM">>

\* The invocations made for one site, in order.
CallsFor(key) == SelectSeq(site_calls, LAMBDA c : c.key = key)

AttemptedKeys == {site_calls[i].key : i \in 1..Len(site_calls)}

\* C5: for one aggregator site the strategies run in the order naive,
\* rendered, LLM; nothing is invoked after a strategy returned a non-empty
\* list; the LLM strategy is invoked only with an LLM service configured; and
\* _scrape_one_site returns the output of the first strategy whose output is
\* non-empty ([] when there is none).
C5_FirstNonEmptyStrategyWins ==
    /\ \A key \in AttemptedKeys :
           LET cs == CallsFor(key) IN
           /\ Len(cs) <= Len(StrategyOrder)
           /\ \A i \in 1..Len(cs) : cs[i].strategy = StrategyOrder[i]
           /\ \A i \in 1..Len(cs) : cs[i].data # <<>> => i = Len(cs)
           /\ \A i \in 1..Len(cs) : cs[i].strategy = "LLM" => cls_llm
    /\ \A m \in 1..Len(site_rets) :
           LET cs == CallsFor(site_rets[m].key) IN
           /\ Len(cs) >= 1
           /\ site_rets[m].data = cs[Len(cs)].data
           /\ (cs[Len(cs)].data = <<>> /\ cls_llm) => cs[Len(cs)].strategy = "LLM"
           /\ (cs[Len(cs)].data = <<>> /\ ~cls_llm) => cs[Len(cs)].strategy = "RENDERED"

C5_Witness ==
    /\ site_pc = "returned"
    /\ cls_llm
    /\ Len(site_rets) >= 2
    /\ Len(CallsFor(site_rets[1].key)) = 2
    /\ Len(site_rets[1].data) = MaxItems
    /\ Len(CallsFor(site_rets[2].key)) = 3
    /\ site_rets[2].data = <<>>

\* ------------------------------------------------------------------------
\* Claims about the callers of the retrying fetch (SpecLocate)
\* ------------------------------------------------------------------------
LocReturned(op) == loc_pc = "returned" /\ loc_op = op

\* The fetch produced no document: None, or a response that is not a 200.
FetchFailed == loc_response = None \/ loc_response.status_code # 200

\* The resolved URL of the k-th link of the page, and the positions whose
\* resolved URL contains one of the given keywords.
Resolved(k) == BuildAbsoluteUrl(loc_url, loc_links[k])
MatchingLinks(keywords) ==
    {k \in 1..Len(loc_links) : ReSearch(keywords, Resolved(k))}

\* C11: when the retrying fetch returns None, naive_scrape returns [],
\* _find_deep_career_pages returns [] and find_careers_pages returns
\* [company_url]; each of them returns (none raises).
C11_NoDocumentGivesFallback ==
    (loc_pc # "idle" /\ loc_pc # "call" /\ loc_response = None) =>
        /\ loc_pc = "returned"
        /\ loc_op = "naive_scrape" => loc_ret = <<>>
        /\ loc_op = "_find_deep_career_pages" => loc_ret = <<>>
        /\ loc_op = "find_careers_pages" => loc_ret = <<loc_url>>

C11_Witness ==
    /\ LocReturned("find_careers_pages")
    /\ loc_response = None
    /\ loc_ret = <<loc_url>>

FirstLink(u) ==
    IF \E k \in 1..Len(loc_links) : Resolved(k) = u
      THEN CHOOSE k \in 1..Len(loc_links) :
             /\ Resolved(k) = u
             /\ \A j \in 1..(k - 1) : Resolved(j) # u
      ELSE 0

\* C13: the list find_careers_pages returns holds no URL twice, and its
\* URLs are in the order of the first occurrence of their links on the page.
C13_NoDuplicatesInDocumentOrder ==
    LocReturned("find_careers_pages") =>
        \A i, j \in 1..Len(loc_ret) :
            i < j => /\ loc_ret[i] # loc_ret[j]
                     /\ FirstLink(loc_ret[i]) < FirstLink(loc_ret[j])

\* The keyword set the locator is specified with.
LocatorKeywords == {"careers", "jobs", "join-us", "join-our-team"}

\* C14: for a fetched homepage, find_careers_pages returns a URL iff it is
\* the resolution of some link of the page and contains, case-insensitively,
\* one of careers, jobs, join-us, join-our-team.
C14_ReturnsExactlyMatchingLinks ==
    (LocReturned("find_careers_pages") /\ ~FetchFailed) =>
        {loc_ret[i] : i \in 1..Len(loc_ret)}
            = {Resolved(k) : k \in MatchingLinks(LocatorKeywords)}

\* ------------------------------------------------------------------------
\* Claims about the rendered strategy (SpecRendered)
\* ------------------------------------------------------------------------
RnEvents(ev) == {i \in 1..Len(rn_trace) : rn_trace[i].ev = ev}

\* C15: the pagination loop parses at most max_pages pages, and the whole
\* run is bounded (per page one parse, one lookup, one click, and at most
\* one exception overall), even when every page has matching elements and
\* a next-page control.
C15_AtMostMaxPages ==
    /\ rn_page_num <= rn_max_pages
    /\ Cardinality(RnEvents("parse")) <= rn_max_pages
    /\ Len(rn_trace) <= 3 * rn_max_pages + 1
    /\ \A i, j \in RnEvents("parse") : i < j => rn_trace[i].page < rn_trace[j].page

C15_Witness ==
    /\ rn_pc = "returned"
    /\ rn_max_pages = DEFAULT_MAX_PAGES
    /\ Cardinality(RnEvents("parse")) = DEFAULT_MAX_PAGES
    /\ \A i \in RnEvents("parse") : rn_trace[i].elems # <<>>
    /\ Cardinality(RnEvents("query")) = DEFAULT_MAX_PAGES
    /\ \A i \in RnEvents("query") : rn_trace[i].found

\* C16: after a page with zero matching elements no further page is parsed
\* and the next-page control is neither looked up nor clicked; after a page
\* on which no next-page control is found no further page is parsed.
C16_PaginationStopsEarly ==
    \A i \in 1..Len(rn_trace) :
        /\ (rn_trace[i].ev = "parse" /\ rn_trace[i].elems = <<>>) =>
               /\ \A j \in (i + 1)..Len(rn_trace) :
                      rn_trace[j].ev \notin {"parse", "query", "click"}
               /\ rn_pc \notin {"loop", "content", "query", "click"}
        /\ (rn_trace[i].ev = "query" /\ ~rn_trace[i].found) =>
               /\ \A j \in (i + 1)..Len(rn_trace) :
                      rn_trace[j].ev \notin {"parse", "query", "click"}
               /\ rn_pc \notin {"loop", "content", "query", "click"}

C16_Witness ==
    /\ rn_pc = "returned"
    /\ rn_max_pages = DEFAULT_MAX_PAGES
    /\ Len(rn_trace) = 4
    /\ rn_trace[1].ev = "parse" /\ rn_trace[1].elems # <<>>
    /\ rn_trace[3].ev = "click"
    /\ rn_trace[4].ev = "parse" /\ rn_trace[4].elems = <<>>

\* ------------------------------------------------------------------------
\* Claims about the rendered aggregator strategy (SpecSiteRendered)
\* ------------------------------------------------------------------------

\* C17: every browser a rendered-strategy task launched is closed by that
\* task on every exit path, exceptions included: no run ends with a
\* launched browser that was never closed.
C17_BrowserClosedOnEveryExit ==
    sr_pc = "returned" => sr_browser # "open"

\* ------------------------------------------------------------------------
\* Claims about filter_jobs (SpecFilter)
\* ------------------------------------------------------------------------
\* The list a config carries under a key is empty or the key is missing.
NoList(cfg, key) == cfg = None \/ Get(cfg, key, <<>>) = <<>>

\* Every field of the config is empty or absent.
EveryFieldEmpty(cfg) ==
    /\ NoList(cfg, "job_titles") /\ NoList(cfg, "locations") /\ NoList(cfg, "job_type")
    /\ cfg # None => DOMAIN cfg \cap {"min_experience_years", "max_experience_years"} = {}

\* C18: with a config whose every field is empty or absent (None, {}, or
\* explicit empty lists), filter_jobs returns a list equal to its input.
C18_EmptyConfigIsIdentity ==
    (f_pc = "returned" /\ EveryFieldEmpty(f_config)) => f_ret = f_jobs

\* The job satisfies the dimension of the config under this key: the list is
\* missing or empty, or one of its strings is, case-insensitively, a
\* substring of the job's field.
Satisfies(job, cfg, key, field) ==
    \/ NoList(cfg, key)
    \/ field \in DOMAIN job /\ AnyIn(cfg[key], job, field)

\* The job's experience is missing, null, or a number within the bounds the
\* config gives (a missing bound does not constrain).
WithinBounds(job, cfg) ==
    \/ "experience" \notin DOMAIN job
    \/ job.experience = None
    \/ /\ job.experience # Text
       /\ "min_experience_years" \in DOMAIN cfg =>
              cfg.min_experience_years <= job.experience.val
       /\ "max_experience_years" \in DOMAIN cfg =>
              job.experience.val <= cfg.max_experience_years

\* C19: a dimension absent from the config never excludes a job: under a
\* config with no (or an empty) job_titles list, every job that satisfies
\* the locations, job_type and experience dimensions present is returned,
\* whatever its title.
C19_AbsentTitlesExcludeNothing ==
    (f_pc = "returned" /\ ~ConfigFalsy(f_config) /\ NoList(f_config, "job_titles")) =>
        \A i \in 1..Len(f_jobs) :
            (/\ Satisfies(f_jobs[i], f_config, "locations", "location")
             /\ Satisfies(f_jobs[i], f_config, "job_type", "job_type")
             /\ WithinBounds(f_jobs[i], f_config)) =>
                \E k \in 1..Len(f_ret) : f_ret[k] = f_jobs[i]

\* C20: the experience check never excludes a job without an experience
\* field or with a null experience, whatever the bounds (min > max
\* included); a job with a numeric experience passes it iff
\* min <= experience <= max, both ends inclusive.
C20_ExperienceCheck ==
    \A i \in 1..Len(f_checks) :
        LET job == f_jobs[i]
            lo == Get(f_config, "min_experience_years", DEFAULT_MIN_EXPERIENCE)
            hi == Get(f_config, "max_experience_years", DEFAULT_MAX_EXPERIENCE)
        IN IF "experience" \notin DOMAIN job \/ job.experience = None
             THEN f_checks[i].experience_ok
             ELSE f_checks[i].experience_ok <=>
                      (lo <= job.experience.val /\ job.experience.val <= hi)

C20_Witness ==
    /\ f_pc = "returned"
    /\ Len(f_checks) = 2
    /\ "min_experience_years" \in DOMAIN f_config
    /\ "max_experience_years" \in DOMAIN f_config
    /\ f_config.min_experience_years = 3 /\ f_config.max_experience_years = 8
    /\ "experience" \in DOMAIN f_jobs[1]
    /\ f_jobs[1].experience = Num(8) /\ f_checks[1].experience_ok
    /\ "experience" \notin DOMAIN f_jobs[2] /\ f_checks[2].experience_ok

\* The job is in the returned list.
Kept(i) == \E k \in 1..Len(f_ret) : f_ret[k] = f_jobs[i]

\* The four predicates a job must pass: job_titles empty or a title matches,
\* experience missing or within the bounds, locations empty or the location
\* matches, job_type empty or the job type matches.
PassesAll(job, cfg) ==
    /\ Satisfies(job, cfg, "job_titles", "title")
    /\ \/ cfg = None
       \/ DOMAIN cfg \cap {"min_experience_years", "max_experience_years"} = {}
       \/ WithinBounds(job, cfg)
    /\ Satisfies(job, cfg, "locations", "location")
    /\ Satisfies(job, cfg, "job_type", "job_type")

\* C21: filter_jobs keeps a job if and only if the title, experience,
\* location and job type predicates all hold for it.
C21_KeptIffAllPredicates ==
    f_pc = "returned" =>
        \A i \in 1..Len(f_jobs) : Kept(i) <=> PassesAll(f_jobs[i], f_config)

\* sub is a subsequence of full: its records are records of full, taken at
\* increasing positions.
IsSubsequence(sub, full) ==
    \E pos \in [1..Len(sub) -> 1..Len(full)] :
        /\ \A k \in 1..Len(sub) : sub[k] = full[pos[k]]
        /\ \A k \in 1..(Len(sub) - 1) : pos[k] < pos[k + 1]

\* C22: the list filter_jobs returns is a subsequence of its input (input
\* records, unchanged, in input order), and no step changes the input list.
C22_OutputIsSubsequence ==
    /\ [](f_pc = "returned" => IsSubsequence(f_ret, f_jobs))
    /\ [][f_jobs' = f_jobs]_vars

C22_Witness ==
    /\ f_pc = "returned"
    /\ ~ConfigFalsy(f_config)
    /\ Len(f_jobs) = 2 /\ f_jobs[1] # f_jobs[2]
    /\ f_ret = f_jobs

\* ------------------------------------------------------------------------
\* Claims about the job records of the static strategy (SpecLocate)
\* ------------------------------------------------------------------------
\* The positions of the elements whose trimmed text is not empty.
NonEmptyElems == {i \in 1..Len(loc_elems) : loc_elems[i] > 0}

\* C23: every record the static strategy produces has a non-empty title of
\* at most 50 characters that is the truncated trimmed text of its element,
\* company equal to the company URL and url equal to the scraped page URL;
\* an element with empty trimmed text produces no record.
C23_JobRecordShape ==
    LocReturned("naive_scrape") =>
        /\ Len(loc_ret) = Cardinality(NonEmptyElems)
        /\ \A k \in 1..Len(loc_ret) :
               /\ loc_ret[k].title.len > 0
               /\ loc_ret[k].title.len <= 50
               /\ loc_ret[k].title.text \in {loc_elems[i] : i \in NonEmptyElems}
               /\ loc_ret[k].title.len =
                      (IF loc_ret[k].title.text < 50 THEN loc_ret[k].title.text ELSE 50)
               /\ loc_ret[k].company = Homepage
               /\ loc_ret[k].url = loc_url

\* ------------------------------------------------------------------------
\* Claims about parse_jobs_with_llm (SpecLlmParse)
\* ------------------------------------------------------------------------

\* C24: the LLM is called only if the cleaned text is longer than 100
\* characters; for text of at most 100 characters (exactly 100 and empty
\* text included) it is not called and the result is [].
C24_LlmOnlyAboveThreshold ==
    /\ lp_chats > 0 => lp_html_len > 100
    /\ (lp_pc \in {"chat", "returned"} /\ lp_html_len <= 100) =>
           lp_pc = "returned" /\ lp_chats = 0 /\ lp_ret = <<>>

\* C25: whatever the LLM call does (text that is no list, unparsable JSON,
\* items that are no records or lack a title, an exception), once it was
\* made parse_jobs_with_llm returns a list and does not raise; anything but
\* a well-formed list of records gives the empty list.
C25_LlmOutputNeverRaises ==
    lp_chats > 0 =>
        /\ lp_pc = "returned"
        /\ lp_chats = 1
        /\ Len(lp_ret) <= Len(lp_output.items)
        /\ (\/ lp_output.kind # "list"
            \/ \E i \in 1..Len(lp_output.items) : lp_output.items[i] = "no_title") =>
               lp_ret = <<>>

C25_Witness ==
    /\ lp_pc = "returned"
    /\ lp_output # NotYet
    /\ lp_output.kind = "list"
    /\ Len(lp_output.items) = 2
    /\ lp_output.items[1] = "title_only" /\ lp_output.items[2] = "no_title"
    /\ lp_ret = <<>>

\* ------------------------------------------------------------------------
\* Claims about the constructors and the LLM tier (SpecConstruct)
\* ------------------------------------------------------------------------

\* C26: with LLM credentials missing, constructing the scraper does not
\* raise and leaves llm_service unset; every cascade run afterwards makes
\* no LLM call and still runs the naive and the rendered strategy for a
\* site on which the naive strategy found nothing.
C26_MissingCredentialsNotFatal ==
    ~ct_key =>
        /\ ct_pc # "raised"
        /\ ~ct_llm_service
        /\ \A i \in 1..Len(site_calls) : site_calls[i].strategy # "LLM"
        /\ \A m \in 1..Len(site_rets) :
               LET cs == CallsFor(site_rets[m].key) IN
               /\ cs[1].strategy = "NAIVE"
               /\ cs[1].data = <<>> => Len(cs) = 2 /\ cs[2].strategy = "RENDERED"

\* ------------------------------------------------------------------------
\* Claims about scrape_all_sites (SpecSites)
\* ------------------------------------------------------------------------
\* The enabled sites, in the fixed order latka, apmlist, growthlist.
EnabledInOrder == SelectSeq(<<"latka", "apmlist", "growthlist">>, LAMBDA k : toggles[k])

\* The (key, name, url) triples of the m-th site that returned.
Triples(m) ==
    [k \in 1..Len(site_rets[m].data) |->
        <<site_rets[m].key, site_rets[m].data[k][1], site_rets[m].data[k][2]>>]

\* C27: scrape_all_sites attempts every enabled site exactly once, in the
\* order latka, apmlist, growthlist, and no disabled site; it returns the
\* concatenation of the per-site results in that order; a site whose every
\* strategy failed contributes nothing and the later sites are still tried.
C27_EverySiteOnceInOrder ==
    /\ Len(site_rets) <= Len(EnabledInOrder)
    /\ \A m \in 1..Len(site_rets) : site_rets[m].key = EnabledInOrder[m]
    /\ \A key \in AttemptedKeys :
           /\ toggles[key]
           /\ Cardinality({i \in 1..Len(site_calls) :
                  site_calls[i].key = key /\ site_calls[i].strategy = "NAIVE"}) = 1
    /\ \A i, j \in 1..Len(site_calls) :
           (i < j /\ site_calls[i].key # site_calls[j].key) =>
               \A l \in j..Len(site_calls) : site_calls[l].key # site_calls[i].key
    /\ final_list = Concat([m \in 1..Len(site_rets) |-> Triples(m)], 1)
    /\ site_pc = "returned" => Len(site_rets) = Len(EnabledInOrder)

C27_Witness ==
    /\ site_pc = "returned"
    /\ Len(EnabledInOrder) = 3
    /\ site_rets[1].data = <<>>
    /\ Len(site_rets[2].data) = MaxItems
    /\ Len(site_rets[3].data) = 1
    /\ Len(final_list) = MaxItems + 1

\* ------------------------------------------------------------------------
\* Claims about the main run (SpecMainFair)
\* ------------------------------------------------------------------------

FirstRowHas(rows, required) ==
    /\ rows # <<>>
    /\ \A i \in 1..Len(required) : required[i] \in Cells(rows[1])

C31_DeepReturnsExactlyMatchingLinks ==
    (LocReturned("_find_deep_career_pages") /\ ~Falsy(loc_response)) =>
        /\ {loc_ret[i] : i \in 1..Len(loc_ret)} =
               {Resolved(k) : k \in MatchingLinks(DeepKeywords)}
        /\ \A i, j \in 1..Len(loc_ret) :
               /\ i # j => loc_ret[i] # loc_ret[j]
               /\ i < j => FirstLink(loc_ret[i]) < FirstLink(loc_ret[j])

\* ------------------------------------------------------------------------
\* Further claims about the rendered strategy (SpecRendered)
\* ------------------------------------------------------------------------
\* The records of the pages parsed from trace position i on.
RECURSIVE ParsedJobs(_)
ParsedJobs(i) ==
    IF i > Len(rn_trace) THEN <<>>
    ELSE (IF rn_trace[i].ev = "parse" THEN RenderedJobs(rn_trace[i].elems, 1) ELSE <<>>)
            \o ParsedJobs(i + 1)

\* C32: an exception raised by goto, wait_for_selector, content,
\* query_selector or click does not leave playwright_scrape: nothing more
\* is parsed or clicked after it and the method returns; what it returns is
\* always the records of the pages parsed so far, hence [] when those pages
\* gave no record.
C32_RaiseKeepsCollectedJobs ==
    /\ \A i \in RnEvents("raise") :
           /\ i = Len(rn_trace)
           /\ rn_pc \in {"close", "returned"}
    /\ rn_pc \in {"close", "returned"} => rn_jobs = ParsedJobs(1)
    /\ (rn_pc = "returned" /\ ParsedJobs(1) = <<>>) => rn_jobs = <<>>

C32_Witness ==
    /\ rn_pc = "returned"
    /\ Len(rn_trace) = 4
    /\ rn_trace[1].ev = "parse"
    /\ rn_trace[3].ev = "click"
    /\ rn_trace[4].ev = "raise"
    /\ rn_jobs # <<>>
    /\ rn_jobs = RenderedJobs(rn_trace[1].elems, 1)

\* C33: every pagination iteration parses exactly one frame: the second
\* frame (index 1) when the page then has more than one frame, the main
\* frame (index 0) otherwise; no page is parsed twice.
C33_SecondFrameElseMain ==
    /\ \A i \in RnEvents("parse") :
           /\ rn_trace[i].frames > 1 => rn_trace[i].frame = 1
           /\ rn_trace[i].frames <= 1 => rn_trace[i].frame = 0
    /\ \A i, j \in RnEvents("parse") : rn_trace[i].page = rn_trace[j].page => i = j

C33_Witness ==
    /\ rn_pc = "returned"
    /\ Cardinality(RnEvents("parse")) = 3
    /\ rn_trace[1].frames = 3 /\ rn_trace[1].frame = 1
    /\ rn_trace[4].frames = 1 /\ rn_trace[4].frame = 0
    /\ rn_trace[7].frames = 2 /\ rn_trace[7].frame = 1

\* ------------------------------------------------------------------------
\* Further claims about the rendered aggregator strategy (SpecSiteRendered)
\* ------------------------------------------------------------------------
\* The positions of the trace that record an attempt on a popup selector.
PopupIdx == {i \in 1..Len(sr_trace) : sr_trace[i][2] \in PopupOutcomes}

\* C34: whatever trying a popup selector does (timeout, hidden popup,
\* click, exception), the run goes on: the configured popup selectors are
\* tried in order, all of them before the content is looked at, and the
\* items returned are those of the page content alone.
C34_PopupFailureIsNotAnError ==
    /\ PopupIdx = 1..Cardinality(PopupIdx)
    /\ \A i \in PopupIdx : sr_trace[i][1] = PopupSelectors(sr_key)[i]
    /\ sr_pc \in {"scroll", "wait_selector", "close", "parse"} =>
           Cardinality(PopupIdx) = Len(PopupSelectors(sr_key))
    /\ (sr_pc = "returned" /\ Cardinality(PopupIdx) < Len(PopupSelectors(sr_key))) =>
           /\ sr_trace # <<>>
           /\ sr_trace[Len(sr_trace)][1] = "raise"
           /\ sr_trace[Len(sr_trace)][2] \in {"launch", "setup", "goto"}
    /\ (sr_pc = "returned" /\ \A i \in 1..Len(sr_trace) : sr_trace[i][1] # "raise") =>
           sr_items = ItemsOf(sr_key, "playwright", sr_names)

C34_Witness ==
    /\ sr_pc = "returned"
    /\ sr_key = "latka"
    /\ Len(sr_trace) = 5
    /\ sr_trace[1][2] = "timeout"
    /\ sr_trace[2][2] = "click_raises"
    /\ sr_trace[3][2] = "hidden"
    /\ sr_items # <<>>

ReloadIdx == {i \in 1..Len(sr_trace) : sr_trace[i][1] = "reload"}
ContentIdx == {i \in 1..Len(sr_trace) : sr_trace[i][1] = "content"}

\* C35: the page is reloaded at most once per run; a reload happens exactly
\* when the content read after the popup loop signals a challenge page, and
\* then directly after the 10 s cooldown; content that still signals a
\* challenge afterwards causes no further reload.
C35_ReloadOnceOnChallenge ==
    /\ Cardinality(ReloadIdx) <= 1
    /\ \A i \in ReloadIdx :
           /\ i >= 3
           /\ sr_trace[i - 1] = <<"wait_for_timeout", "10000">>
           /\ sr_trace[i - 2] = Content(TRUE)
           /\ \A j \in ContentIdx : j >= i - 2
    /\ \A i \in ContentIdx :
           (\A j \in ContentIdx : j >= i) =>
               IF sr_trace[i] = Content(TRUE)
                 THEN Len(sr_trace) >= i + 2 /\ (i + 2) \in ReloadIdx
                 ELSE ReloadIdx = {}

C35_Witness ==
    /\ sr_pc = "returned"
    /\ sr_key = "apmlist"
    /\ sr_trace = <<Content(TRUE), <<"wait_for_timeout", "10000">>, <<"reload", "">>,
                    Content(TRUE)>>

\* The number of elements with a non-empty trimmed text on the pages parsed
\* from trace position i on.
RECURSIVE TitledElems(_)
TitledElems(i) ==
    IF i > Len(rn_trace) THEN 0
    ELSE (IF rn_trace[i].ev = "parse"
            THEN Cardinality({k \in 1..Len(rn_trace[i].elems) : rn_trace[i].elems[k] > 0})
            ELSE 0)
         + TitledElems(i + 1)

C39_NoClickAfterLastPage ==
    /\ Cardinality(RnEvents("click")) <= rn_max_pages - 1
    /\ \A i \in RnEvents("click") : rn_trace[i].page < rn_max_pages

\* C39 (amended): the next-page control is clicked at most once per parsed
\* page, directly after a lookup that found it, hence at most max_pages
\* times per run; it is clicked after page number max_pages too when the
\* lookup finds it there, and no page is parsed after that click.
C39_AtMostOneClickPerPage ==
    /\ Cardinality(RnEvents("click")) <= rn_max_pages
    /\ \A i \in RnEvents("click") :
           /\ i > 1
           /\ rn_trace[i - 1].ev = "query"
           /\ rn_trace[i - 1].found
           /\ rn_trace[i - 1].page = rn_trace[i].page
           /\ rn_trace[i].page = rn_max_pages =>
                  \A j \in (i + 1)..Len(rn_trace) : rn_trace[j].ev = "raise"
    /\ \A i, j \in RnEvents("click") : rn_trace[i].page = rn_trace[j].page => i = j

C39_Witness ==
    /\ rn_pc = "returned"
    /\ rn_max_pages = 2
    /\ Cardinality(RnEvents("click")) = 2
    /\ rn_trace[Len(rn_trace)].ev = "click"
    /\ rn_trace[Len(rn_trace)].page = 2

\* ------------------------------------------------------------------------
\* Further claims about filter_jobs (SpecFilter)
\* ------------------------------------------------------------------------

\* C38: for jobs that lack location or job_type (and whose experience, when
\* present, is a number or None) filter_jobs raises under no config, also
\* not under one with non-empty locations or job_type lists: it returns a
\* list.
C38_TotalOverOptionalFields ==
    (\A i \in 1..Len(f_jobs) :
         "experience" \in DOMAIN f_jobs[i] => f_jobs[i].experience # Text)
        => f_pc # "raised"

\* ------------------------------------------------------------------------
\* Further claims about the sheet header (SpecEnsure)
\* ------------------------------------------------------------------------

\* C40: ensure_columns_exist never adds a row to a sheet that has rows: the
\* sheet has as many rows after the call as before and the rows under the
\* header are where they were; and a call on a sheet whose first row holds
\* every required column changes nothing.
C40_HeaderUpdatedInPlace ==
    gs_pc = "returned" =>
        /\ gs_start # <<>> =>
               /\ Len(gs_rows) = Len(gs_start)
               /\ \A k \in 2..Len(gs_start) : gs_rows[k] = gs_start[k]
        /\ FirstRowHas(gs_start, gs_required) => gs_rows = gs_start

====
